---- MODULE Spec2Model ----
(***************************************************************************)
(* A model of the repository acquisition engine of ss-plugin-degit:        *)
(*   - internal/degit/extract.go   ExtractTarball and its path helpers     *)
(*   - internal/degit/cache.go     the ref -> commit cache (UpdateCache)   *)
(*   - degit.go (Degit.Clone)      the tar / git orchestration             *)
(*   - internal/degit/actions.go   the degit.json action executor          *)
(*                                                                         *)
(* Strings that the code inspects character by character (paths) are       *)
(* sequences of one-character strings, so that strings.HasPrefix,          *)
(* strings.Split and filepath.Clean are computed as Go computes them.      *)
(***************************************************************************)
EXTENDS Integers, Sequences, FiniteSets, TLC

VARIABLES
    \* ---- ExtractTarball (extract.go) ----
    xDest,      \* destDir argument (a cleaned absolute path)
    xOpts,      \* ExtractOptions: [StripComponents, Subdir]
    xPc,        \* "start" | "loop" | "returned"
    xErr,       \* the returned error ("nil" while running or on success)
    xRead,      \* the headers tarReader.Next() has returned so far
    xFs,        \* the file system: a set of [path, kind, target]
    xLog,       \* per header read: what the loop body did with it
    \* ---- reference cache (cache.go) ----
    mapFile,    \* map.json: "absent" | "corrupt" | [refs -> hash]
    accessFile, \* access.json: "absent" | "corrupt" | [refs -> timestamp]
    tarballs,   \* the <hash>.tar.gz files present in the cache directory
    clock,      \* time.Now()
    lastUpdate, \* the UpdateCache call made by the last step, if it made one
    \* ---- Degit.Clone and the action executor ----
    manifests,  \* per remote repository: the degit.json its tree carries
    dest,       \* the destination directory: [exists, files, manifest]
    repoCache,  \* per repository: its cache directory [map, access, tars, bad]
    stack,      \* the Clone calls in progress, innermost last
    ret,        \* the Clone call that has just returned, until its caller resumes
    events,     \* network and subprocess calls made so far
    nextId,     \* numbers the degit.json files written into dest
    loadLog,    \* the degit.json files LoadActions has parsed, in order
    prev,       \* what the first outermost Clone resolved, once a second one has begun
    \* ---- executeRemoveAction (actions.go), on destDir xDest and xFs ----
    rFiles,     \* action.Files: the listed paths
    rIdx,       \* position of the range loop in rFiles
    rErr,       \* "running", or the returned error ("nil" on success)
    rLog,       \* per listed path processed: what the loop body did
    \* ---- one client.Do of downloadGitHubTarball or GitHubRequestWithHeaders ----
    http,       \* [client, token, hops, host, auth, stripped, sent, state]
    \* ---- one call of ResolveRef ----
    rr,         \* [refs, name, done, hash, err]
    \* ---- the subdirectory move of cloneWithGit (part_000) ----
    mv,         \* [pc, full, sub, temp, moved, pending, ignored, err]
    \* ---- ParseSource (part_002) ----
    ps,         \* [owner, repo, subdir, ref, out]: the parts and, per form, the result
    \* ---- cloneWithGit's clone attempts (part_000:181-211) ----
    ga,         \* [pc, repo, verbose, dest, log, httpsErr, err]
    \* ---- FetchRefsWithToken (part_003:36-106) ----
    fr,         \* [pc, site, token, remote, defaultBranch, refs, failed, via, err]
    \* ---- DownloadTarball (part_001:22-52) ----
    dl,         \* [pc, site, token, api, direct, file, err]
    \* ---- two processes in UpdateCache on one cache directory ----
    uc,         \* [map, access, lastMap, lastAccess, procs]
    \* ---- cloneWithTar run with Verbose on and off (part_000:89-175) ----
    vb          \* [site, offline, cached, tokenLen, hashLen, run]

extractVars == <<xDest, xOpts, xPc, xErr, xRead, xFs, xLog>>
cacheVars == <<mapFile, accessFile, tarballs, clock, lastUpdate>>
cloneVars == <<manifests, dest, repoCache, stack, ret, events, nextId, loadLog, prev>>
removeVars == <<rFiles, rIdx, rErr, rLog>>
unitVars == <<ps, ga, fr, dl, uc, vb>>
extraVars == <<removeVars, http, rr, mv, unitVars>>
vars == <<extractVars, cacheVars, cloneVars, extraVars>>

(***************************************************************************)
(* Strings as character sequences.                                         *)
(***************************************************************************)
Sep == "/"

\* strings.HasPrefix(s, prefix)
HasPrefix(s, prefix) ==
    /\ Len(s) >= Len(prefix)
    /\ SubSeq(s, 1, Len(prefix)) = prefix

RECURSIVE SplitRec(_, _, _)
SplitRec(s, i, cur) ==
    IF i > Len(s) THEN <<cur>>
    ELSE IF s[i] = Sep THEN <<cur>> \o SplitRec(s, i + 1, <<>>)
    ELSE SplitRec(s, i + 1, Append(cur, s[i]))

\* strings.Split(s, "/")
Split(s) == SplitRec(s, 1, <<>>)

RECURSIVE StringsJoin(_)
\* strings.Join(parts, "/")
StringsJoin(parts) ==
    IF parts = <<>> THEN <<>>
    ELSE IF Len(parts) = 1 THEN parts[1]
    ELSE parts[1] \o <<Sep>> \o StringsJoin(Tail(parts))

RECURSIVE TrimLeft(_)
TrimLeft(s) == IF s # <<>> /\ s[1] = Sep THEN TrimLeft(Tail(s)) ELSE s

RECURSIVE TrimRight(_)
TrimRight(s) ==
    IF s # <<>> /\ s[Len(s)] = Sep THEN TrimRight(SubSeq(s, 1, Len(s) - 1)) ELSE s

\* strings.Trim(s, "/")
Trim(s) == TrimRight(TrimLeft(s))

\* strings.Count(s, "/")
Count(s) == Cardinality({i \in 1..Len(s) : s[i] = Sep})

Dot == <<".">>
DotDot == <<".", ".">>

RECURSIVE CleanRec(_, _, _)
\* The element loop of filepath.Clean: out is the stack of kept elements.
CleanRec(parts, out, rooted) ==
    IF parts = <<>> THEN out
    ELSE LET e == Head(parts)
             rest == Tail(parts)
         IN  IF e = <<>> \/ e = Dot THEN CleanRec(rest, out, rooted)
             ELSE IF e = DotDot THEN
                 IF out # <<>> /\ out[Len(out)] # DotDot
                     THEN CleanRec(rest, SubSeq(out, 1, Len(out) - 1), rooted)
                 ELSE IF rooted THEN CleanRec(rest, out, rooted)
                 ELSE CleanRec(rest, Append(out, DotDot), rooted)
             ELSE CleanRec(rest, Append(out, e), rooted)

\* filepath.Clean(path)
Clean(path) ==
    IF path = <<>> THEN Dot
    ELSE LET rooted == path[1] = Sep
             out == StringsJoin(CleanRec(Split(path), <<>>, rooted))
         IN  IF rooted THEN <<Sep>> \o out
             ELSE IF out = <<>> THEN Dot ELSE out

RECURSIVE DropEmpty(_)
DropEmpty(elems) ==
    IF elems = <<>> THEN <<>>
    ELSE IF Head(elems) = <<>> THEN DropEmpty(Tail(elems))
    ELSE elems

\* filepath.Join(elems...): from the first non-empty element on, joined and cleaned
FilepathJoin(elems) ==
    LET e == DropEmpty(elems)
    IN  IF e = <<>> THEN <<>> ELSE Clean(StringsJoin(e))

\* filepath.IsAbs(path)
IsAbs(path) == path # <<>> /\ path[1] = Sep

\* filepath.Dir(path)
FilepathDir(path) ==
    LET seps == {i \in 1..Len(path) : path[i] = Sep}
        last == IF seps = {} THEN 0 ELSE CHOOSE i \in seps : \A j \in seps : j <= i
    IN  Clean(SubSeq(path, 1, last))

(***************************************************************************)
(* extract.go: path helpers                                                *)
(***************************************************************************)
\* stripPath keeping only the last component of what is left
stripPathFlatten(path, n) ==
    LET parts == Split(path)
    IN  IF Len(parts) <= n THEN <<>>
        ELSE FilepathJoin(<<parts[Len(parts)]>>)

\* stripPath(path, n)
stripPath(path, n) ==
    LET parts == Split(path)
    IN  IF Len(parts) <= n THEN <<>>
        ELSE FilepathJoin(SubSeq(parts, n + 1, Len(parts)))

\* containsSubdir with the separator left out of the prefix test
containsSubdirBarePrefix(path, subdir) ==
    LET sd == Trim(subdir)
        parts == Split(path)
    IN  IF Len(parts) < 2 THEN FALSE
        ELSE HasPrefix(StringsJoin(Tail(parts)), sd)

\* containsSubdir(path, subdir)
containsSubdir(path, subdir) ==
    LET sd == Trim(subdir)
        parts == Split(path)
    IN  IF Len(parts) < 2 THEN FALSE
        ELSE LET pathAfterRoot == StringsJoin(Tail(parts))
             IN  HasPrefix(pathAfterRoot, sd \o <<Sep>>) \/ pathAfterRoot = sd

\* "Calculate strip level" at the top of ExtractTarball
StripLevel(opts) ==
    LET base == IF opts.StripComponents = 0 THEN 1 ELSE opts.StripComponents
    IN  IF opts.Subdir # <<>> THEN base + Count(Trim(opts.Subdir)) + 1 ELSE base

\* The guard of "Security check: prevent path traversal": TRUE = entry passes
PassesTraversalCheck(destPath, destDir) ==
    HasPrefix(Clean(destPath), Clean(destDir))

\* The guard on a symlink's resolved target: TRUE = link passes
PassesLinkCheck(targetPath, destDir) ==
    HasPrefix(Clean(targetPath), Clean(destDir))

(***************************************************************************)
(* The file system ExtractTarball writes to: a set of objects.             *)
(***************************************************************************)
Obj(p, k, t) == [path |-> p, kind |-> k, target |-> t]

KindAt(fs, p) ==
    IF \E o \in fs : o.path = p THEN (CHOOSE o \in fs : o.path = p).kind ELSE "none"

\* p and every ancestor of p, for a cleaned absolute path p
PathPrefixes(p) ==
    LET parts == Tail(Split(p))
    IN  {<<Sep>> \o StringsJoin(SubSeq(parts, 1, k)) : k \in 0..Len(parts)}

\* os.MkdirAll(p): fails when p or an ancestor exists and is not a directory
MkdirAllOk(fs, p) == \A q \in PathPrefixes(p) : KindAt(fs, q) \in {"none", "dir"}

MkdirAll(fs, p) ==
    fs \cup {Obj(q, "dir", <<>>) : q \in {r \in PathPrefixes(p) : KindAt(fs, r) = "none"}}

\* extractFile(reader, destPath, mode); copyOk is whether io.Copy succeeds
extractFile(fs, destPath, copyOk) ==
    LET parent == FilepathDir(destPath)
    IN  IF ~MkdirAllOk(fs, parent) THEN [fs |-> fs, err |-> "fileErr"]
        ELSE LET fs1 == MkdirAll(fs, parent)
             IN  IF KindAt(fs1, destPath) = "dir" THEN [fs |-> fs1, err |-> "fileErr"]
                 ELSE [fs |-> {o \in fs1 : o.path # destPath}
                                 \cup {Obj(destPath, "file", <<>>)},
                       err |-> IF copyOk THEN "nil" ELSE "fileErr"]

(***************************************************************************)
(* One iteration of the "Extract files" loop of ExtractTarball for header  *)
(* h.  Result: the new file system, the error returned ("nil" = the loop   *)
(* goes on) and what the iteration did.                                    *)
(***************************************************************************)
Step(fs, err, did) == [fs |-> fs, err |-> err, did |-> did]

WriteEntry(h, fs, destDir, destPath, ioOk) ==
    CASE h.Typeflag = "dir" ->
            IF MkdirAllOk(fs, destPath)
                THEN Step(MkdirAll(fs, destPath), "nil", "dir")
                ELSE Step(fs, "dirErr", "ioerr")
      [] h.Typeflag = "reg" ->
            LET r == extractFile(fs, destPath, ioOk)
            IN  Step(r.fs, r.err, IF r.err = "nil" THEN "file" ELSE "ioerr")
      [] h.Typeflag = "symlink" ->
            IF IsAbs(h.Linkname) THEN Step(fs, "nil", "skiplink")
            ELSE IF ~PassesLinkCheck(FilepathJoin(<<FilepathDir(destPath), h.Linkname>>),
                                     destDir)
                THEN Step(fs, "nil", "skiplink")
            ELSE IF ~ioOk \/ KindAt(fs, destPath) # "none"
                        \/ KindAt(fs, FilepathDir(destPath)) # "dir"
                THEN Step(fs, "nil", "linkfail")
            ELSE Step(fs \cup {Obj(destPath, "symlink", h.Linkname)}, "nil", "link")
      [] OTHER -> Step(fs, "nil", "other")

\* The loop body with the write placed before the traversal check
ExtractEntryWriteFirst(h, fs, destDir, opts, ioOk) ==
    IF opts.Subdir # <<>> /\ ~containsSubdir(h.Name, Trim(opts.Subdir))
        THEN Step(fs, "nil", "filtered")
    ELSE LET name == stripPath(h.Name, StripLevel(opts))
         IN  IF name = <<>> THEN Step(fs, "nil", "stripped")
             ELSE LET destPath == FilepathJoin(<<destDir, name>>)
                      w == WriteEntry(h, fs, destDir, destPath, ioOk)
                  IN  IF ~PassesTraversalCheck(destPath, destDir)
                          THEN Step(w.fs, "traversal", "traversal")
                      ELSE w

ExtractEntry(h, fs, destDir, opts, ioOk) ==
    IF opts.Subdir # <<>> /\ ~containsSubdir(h.Name, Trim(opts.Subdir))
        THEN Step(fs, "nil", "filtered")
    ELSE LET name == stripPath(h.Name, StripLevel(opts))
         IN  IF name = <<>> THEN Step(fs, "nil", "stripped")
             ELSE LET destPath == FilepathJoin(<<destDir, name>>)
                  IN  IF ~PassesTraversalCheck(destPath, destDir)
                          THEN Step(fs, "traversal", "traversal")
                      ELSE WriteEntry(h, fs, destDir, destPath, ioOk)

(***************************************************************************)
(* Inputs of ExtractTarball.  Names are built from components; "r" is the  *)
(* synthetic root folder of a downloaded archive ("repo-<hash>").          *)
(***************************************************************************)
MaxEntries == 2

cR == <<"r">>
cA == <<"a">>
cB == <<"b">>
cS == <<"s">>
cSX == <<"s", "x">>
cOA == <<"o", "a">>
cE == <<"e">>
cP == <<"p">>
cL == <<"l">>
cT == <<"t">>
cNone == <<>>

Path(comps) == StringsJoin(comps)

Hdr(n, t, l) == [Name |-> Path(n), Typeflag |-> t, Linkname |-> Path(l)]

\* /t/o has the sibling /t/oa, whose name starts with "o"; /w has none here
DestDirs == {Path(<<cNone, <<"t">>, <<"o">>>>), Path(<<cNone, <<"w">>>>)}

Subdirs == {<<>>, cS, Path(<<cNone, cS, cT>>)}

Headers ==
    { Hdr(<<<<"p", "g">>>>, "xglobal", <<>>),            \* pax_global_header
      Hdr(<<cR, cNone>>, "dir", <<>>),                    \* r/
      Hdr(<<cR, cA>>, "reg", <<>>),                       \* r/a
      Hdr(<<cR, cS, cNone>>, "dir", <<>>),                \* r/s/
      Hdr(<<cR, cS, cB>>, "reg", <<>>),                   \* r/s/b
      Hdr(<<cR, cSX, cB>>, "reg", <<>>),                  \* r/sx/b
      Hdr(<<cR, cS, cT, cB>>, "reg", <<>>),               \* r/s/t/b
      Hdr(<<cR, cS>>, "reg", <<>>),                       \* r/s as a file
      Hdr(<<cR, DotDot, cOA, cB>>, "reg", <<>>),          \* r/../oa/b
      Hdr(<<cR, DotDot, cOA>>, "dir", <<>>),              \* r/../oa
      Hdr(<<cR, DotDot, DotDot, cE, cP>>, "reg", <<>>),   \* r/../../e/p
      Hdr(<<cR, cS, DotDot, DotDot, cE>>, "reg", <<>>),   \* r/s/../../e
      Hdr(<<cR, cL>>, "symlink", <<cA>>),                 \* r/l -> a
      Hdr(<<cR, cL>>, "symlink", <<cNone, cE, cP>>),      \* r/l -> /e/p
      Hdr(<<cR, cL>>, "symlink", <<DotDot, cOA>>),        \* r/l -> ../oa
      Hdr(<<cR, cL>>, "symlink", <<DotDot, DotDot, cE>>), \* r/l -> ../../e
      Hdr(<<cR, cS, cL>>, "symlink", <<DotDot, cA>>) }    \* r/s/l -> ../a

\* The file system before the call: the parent of destDir exists; destDir
\* itself is absent, a directory, or (wrongly) a regular file.
InitialFs(dir, state) ==
    LET up == {Obj(q, "dir", <<>>) : q \in PathPrefixes(FilepathDir(dir))}
    IN  CASE state = "absent" -> up
          [] state = "dir" -> up \cup {Obj(dir, "dir", <<>>)}
          [] state = "file" -> up \cup {Obj(dir, "file", <<>>)}

ExtractInit ==
    /\ xDest \in DestDirs
    /\ xOpts \in [StripComponents : {0, 1, 2}, Subdir : Subdirs]
    /\ xPc = "start"
    /\ xErr = "nil"
    /\ xRead = <<>>
    /\ xLog = <<>>
    /\ \E st \in {"absent", "dir", "file"} : xFs = InitialFs(xDest, st)

ExtractIdle ==
    /\ xDest = <<>>
    /\ xOpts = [StripComponents |-> 0, Subdir |-> <<>>]
    /\ xPc = "returned"
    /\ xErr = "nil"
    /\ xRead = <<>>
    /\ xLog = <<>>
    /\ xFs = {}

\* os.Open, gzip.NewReader, strip level, os.MkdirAll(destDir)
ExtractOpen(outcome) ==
    /\ xPc = "start"
    /\ IF outcome # "nil"
          THEN xPc' = "returned" /\ xErr' = outcome /\ xFs' = xFs
       ELSE IF ~MkdirAllOk(xFs, xDest)
          THEN xPc' = "returned" /\ xErr' = "mkdirErr" /\ xFs' = xFs
       ELSE xPc' = "loop" /\ xErr' = "nil" /\ xFs' = MkdirAll(xFs, xDest)
    /\ UNCHANGED <<xDest, xOpts, xRead, xLog>>

\* tarReader.Next() returns a header; the loop body runs on it
ExtractNext(h, ioOk) ==
    /\ xPc = "loop"
    /\ Len(xRead) < MaxEntries
    /\ LET r == ExtractEntry(h, xFs, xDest, xOpts, ioOk)
       IN  /\ xFs' = r.fs
           /\ xErr' = r.err
           /\ xLog' = Append(xLog, r.did)
           /\ xPc' = IF r.err = "nil" THEN "loop" ELSE "returned"
    /\ xRead' = Append(xRead, h)
    /\ UNCHANGED <<xDest, xOpts>>

\* tarReader.Next() returns io.EOF
ExtractEOF ==
    /\ xPc = "loop"
    /\ xPc' = "returned"
    /\ UNCHANGED <<xDest, xOpts, xErr, xRead, xFs, xLog>>

\* tarReader.Next() returns another error
ExtractReadErr ==
    /\ xPc = "loop"
    /\ xPc' = "returned"
    /\ xErr' = "readErr"
    /\ UNCHANGED <<xDest, xOpts, xRead, xFs, xLog>>

(***************************************************************************)
(* cache.go: the per-repository cache directory.                           *)
(*   map.json    ref -> commit hash        (mapFile)                       *)
(*   access.json ref -> access timestamp   (accessFile)                    *)
(*   <hash>.tar.gz                         (tarballs)                      *)
(* A JSON file is [state, m]: state "absent", "corrupt" (unreadable or not *)
(* parsable) or "ok" with content m.                                       *)
(***************************************************************************)
MaxClock == 2

Refs == {"main", "v1"}
Hashes == {"h1", "h2"}
NoHash == ""

EmptyMap == [r \in {} |-> NoHash]
Absent == [state |-> "absent", m |-> EmptyMap]
Corrupt == [state |-> "corrupt", m |-> EmptyMap]
Saved(m) == [state |-> "ok", m |-> m]

\* m[key] of a Go map: the zero value when the key is missing
Lookup(m, key) == IF key \in DOMAIN m THEN m[key] ELSE NoHash

\* m[key] = value
Put(m, key, value) == [k \in DOMAIN m \cup {key} |-> IF k = key THEN value ELSE m[k]]

\* LoadRefMap / LoadAccessLog: a missing file is an empty map, not an error
LoadRefMap(file) ==
    CASE file.state = "absent" -> [m |-> EmptyMap, err |-> FALSE]
      [] file.state = "corrupt" -> [m |-> EmptyMap, err |-> TRUE]
      [] OTHER -> [m |-> file.m, err |-> FALSE]

\* GetCachedHash(cacheDir, ref)
GetCachedHash(file, ref) ==
    LET l == LoadRefMap(file)
    IN  IF l.err THEN NoHash ELSE Lookup(l.m, ref)

GetCachedTarballNever(tars, hash) == FALSE

\* GetCachedTarball(cacheDir, hash): TRUE when <hash>.tar.gz exists
GetCachedTarball(tars, hash) == hash \in tars

\* "Check if old hash is still in use by other refs": the loop over refMap
HashInUseNever(refMap, oldHash) == FALSE

HashInUse(refMap, oldHash) == \E r \in DOMAIN refMap : refMap[r] = oldHash

\* A test that never finds the mapping in place
AlreadyCachedNever(refMap, ref, hash) == FALSE

\* "Check if ref already points to this hash"
AlreadyCached(refMap, ref, hash) == Lookup(refMap, ref) = hash

\* LoadRefMap / LoadAccessLog when os.ReadFile may fail on a file that is
\* there: "return nil, err"
LoadOrFail(file, readFails) ==
    IF readFails /\ file.state # "absent" THEN [m |-> EmptyMap, err |-> TRUE]
    ELSE LoadRefMap(file)

\* UpdateCache(cacheDir, ref, hash) at time now; io names the file operation
\* that fails, if any: a write ("accessFail", "mapFail") or a read
\* ("mapReadFail", "accessReadFail"); "ok" when none does.
UpdateCache(mf, af, tars, ref, hash, now, io) ==
    LET loadedMap == LoadOrFail(mf, io = "mapReadFail")
        refMap == IF loadedMap.err THEN EmptyMap ELSE loadedMap.m
        loadedLog == LoadOrFail(af, io = "accessReadFail")
        accessLog == IF loadedLog.err THEN EmptyMap ELSE loadedLog.m
        newLog == Put(accessLog, ref, now)
        oldHash == Lookup(refMap, ref)
        tars1 == IF oldHash # NoHash /\ ~HashInUse(refMap, oldHash)
                    THEN tars \ {oldHash} ELSE tars
    IN  IF io = "accessFail"
            THEN [map |-> mf, access |-> af, tars |-> tars, err |-> "saveErr", writes |-> {}]
        ELSE IF AlreadyCached(refMap, ref, hash)
            THEN [map |-> mf, access |-> Saved(newLog), tars |-> tars, err |-> "nil",
                  writes |-> {"access.json"}]
        ELSE IF io = "mapFail"
            THEN [map |-> mf, access |-> Saved(newLog), tars |-> tars1, err |-> "saveErr",
                  writes |-> {"access.json"}]
        ELSE [map |-> Saved(Put(refMap, ref, hash)), access |-> Saved(newLog),
              tars |-> tars1, err |-> "nil", writes |-> {"access.json", "map.json"}]

NoUpdate ==
    [called |-> FALSE, ref |-> "", hash |-> NoHash, err |-> "nil",
     preMap |-> EmptyMap, preTars |-> {}, writes |-> {}]

CacheInit ==
    /\ mapFile \in {Absent, Corrupt}
    /\ accessFile \in {Absent, Corrupt}
    /\ tarballs = {}
    /\ clock = 0
    /\ lastUpdate = NoUpdate

CacheIdle ==
    /\ mapFile = Absent
    /\ accessFile = Absent
    /\ tarballs = {}
    /\ clock = 0
    /\ lastUpdate = NoUpdate

\* DownloadTarball wrote <hash>.tar.gz into the cache directory
CacheDownload(hash) ==
    /\ hash \notin tarballs
    /\ tarballs' = tarballs \cup {hash}
    /\ lastUpdate' = NoUpdate
    /\ UNCHANGED <<mapFile, accessFile, clock>>

\* A call UpdateCache(cacheDir, ref, hash)
CacheUpdate(ref, hash, now, io) ==
    /\ now >= clock
    /\ LET r == UpdateCache(mapFile, accessFile, tarballs, ref, hash, now, io)
           loaded == LoadOrFail(mapFile, io = "mapReadFail")
       IN  /\ mapFile' = r.map
           /\ accessFile' = r.access
           /\ tarballs' = r.tars
           /\ lastUpdate' = [called |-> TRUE, ref |-> ref, hash |-> hash, err |-> r.err,
                             preMap |-> loaded.m, preTars |-> tarballs,
                             writes |-> r.writes]
    /\ clock' = now


(***************************************************************************)
(* Degit.Clone: the remote repositories, the destination and the caches.   *)
(***************************************************************************)
MaxDepth == 2

Repos == {"A", "B"}

\* A parsed Source (the fields Clone uses) and the Options of a Degit
Src(r, ref, sub) == [repo |-> r, ref |-> ref, subdir |-> sub]
Opts(f, c, m) == [Force |-> f, Cache |-> c, Mode |-> m]

\* The trees of the remote repositories.  Only A has the subdirectory "s".
RootFiles(r) == IF r = "A" THEN {"fa", "common"} ELSE {"fb", "common"}
HasSubdir(r) == r = "A"
FullTree(r) == RootFiles(r) \cup (IF HasSubdir(r) THEN {"s/sa"} ELSE {})
SubTree(r) == IF HasSubdir(r) THEN {"sa"} ELSE {}
\* What an acquisition of (r, subdir) places at the destination
TreeOf(r, sub) == IF sub = "" THEN FullTree(r) ELSE SubTree(r)

\* Action values of a degit.json
CloneAct(srcStr, cache) ==
    [action |-> "clone", src |-> srcStr, files |-> <<>>, cache |-> cache]
RemoveAct(files) ==
    [action |-> "remove", src |-> "", files |-> files, cache |-> FALSE]
OtherAct == [action |-> "copy", src |-> "", files |-> <<>>, cache |-> FALSE]

NoFile == [state |-> "none", actions |-> <<>>]
BadFile == [state |-> "bad", actions |-> <<>>]
Parsed(acts) == [state |-> "ok", actions |-> acts]

\* The degit.json files the two repositories carry at their roots
Worlds ==
    { [A |-> NoFile, B |-> NoFile],
      [A |-> BadFile, B |-> NoFile],
      [A |-> Parsed(<<>>), B |-> NoFile],
      [A |-> Parsed(<<RemoveAct(<<"fa", "../x", "gone">>), OtherAct,
                      CloneAct("B", FALSE), OtherAct>>),
       B |-> NoFile],
      [A |-> Parsed(<<CloneAct("B", TRUE), CloneAct("", FALSE)>>),
       B |-> Parsed(<<RemoveAct(<<"fb">>), CloneAct("?", FALSE)>>)],
      [A |-> Parsed(<<CloneAct("A", FALSE)>>), B |-> NoFile],
      [A |-> Parsed(<<CloneAct("B", FALSE)>>),
       B |-> Parsed(<<CloneAct("A", FALSE)>>)] }

\* The sources of the outermost call: B has no subdirectory "s"
TopSources == {Src("A", "v1", ""), Src("A", "v1", "s"), Src("B", "v1", "s")}

\* ParseSource on the src of a clone action: "A" and "B" name repositories
ParseActionSrc(srcStr) ==
    IF srcStr \in Repos THEN [ok |-> TRUE, src |-> Src(srcStr, "HEAD", "")]
    ELSE [ok |-> FALSE, src |-> Src("", "", "")]

\* The destination directory
NoManifest == [repo |-> "", id |-> 0]
NoDir == [exists |-> FALSE, files |-> {}, manifest |-> NoManifest]
EmptyDir == [exists |-> TRUE, files |-> {}, manifest |-> NoManifest]
HasEntries(d) == d.exists /\ (d.files # {} \/ d.manifest # NoManifest)

\* A repository's cache directory; bad: the archives cut short while written
EmptyCache == [map |-> Absent, access |-> Absent, tars |-> {}, bad |-> {}]

\* os.ReadDir(dest) of checkDestEmpty
checkDestEmptyOffByOne(d) ==
    IF ~d.exists THEN "nil"
    ELSE IF Cardinality(d.files) > 1 THEN "destNotEmpty" ELSE "nil"

checkDestEmpty(d) ==
    IF ~d.exists THEN "nil"
    ELSE IF HasEntries(d) THEN "destNotEmpty" ELSE "nil"

\* Does the tree acquired for (r, sub) carry a degit.json at its root
CarriesManifest(r, sub) == sub = "" /\ manifests[r].state # "none"

\* The acquired tree written over d; id numbers the degit.json written
WriteTree(d, r, sub, id) ==
    [exists |-> TRUE,
     files |-> d.files \cup TreeOf(r, sub),
     manifest |-> IF CarriesManifest(r, sub) THEN [repo |-> r, id |-> id]
                  ELSE d.manifest]

\* What cloneWithTar does with the error of UpdateCache: a warning at most
CacheUpdateErrorStrict(err) == IF err = "nil" THEN "nil" ELSE "cacheFail"

CacheUpdateError(err) == "nil"

\* hash: the archive handed to ExtractTarball; cacheErr: what UpdateCache returned
TarResult(err, c, d, ev, wrote) ==
    [err |-> err, cache |-> c, dest |-> d, events |-> ev, wrote |-> wrote,
     hash |-> NoHash, cacheErr |-> "notRun", fetch |-> "notRun"]

\* A resolution that gives up when the fetch fails
ResolveOnlineNoFallback(src, opts, c, e) ==
    IF e.fetch = "fail"
        THEN [hash |-> NoHash, err |-> "fetchFail", events |-> {"fetchRefs"}, fetch |-> "fail"]
    ELSE [hash |-> IF e.resolve = "fail" THEN NoHash ELSE e.resolve,
          err |-> IF e.resolve = "fail" THEN "resolveFail" ELSE "nil",
          events |-> {"fetchRefs"}, fetch |-> "nil"]

\* "Try to resolve ref to hash" of cloneWithTar, online: fetch the refs,
\* fall back to the cached mapping when the fetch fails
ResolveOnline(src, opts, c, e) ==
    IF e.fetch = "fail"
        THEN LET h == GetCachedHash(c.map, src.ref)
             IN  [hash |-> h, err |-> IF h = NoHash THEN "fetchFail" ELSE "nil",
                  events |-> {"fetchRefs"}, fetch |-> "fail"]
    ELSE [hash |-> IF e.resolve = "fail" THEN NoHash ELSE e.resolve,
          err |-> IF e.resolve = "fail" THEN "resolveFail" ELSE "nil",
          events |-> {"fetchRefs"}, fetch |-> "nil"]

ResolveHash(src, opts, c, e) ==
    IF opts.Cache
        THEN LET h == GetCachedHash(c.map, src.ref)
             IN  [hash |-> h, err |-> IF h = NoHash THEN "offlineMiss" ELSE "nil",
                  events |-> {}, fetch |-> "notRun"]
    ELSE ResolveOnline(src, opts, c, e)

\* cloneWithTar(src, dest, cacheDir) under the environment's answers e
cloneWithTar(src, opts, c, d, e, id) ==
    LET res == ResolveHash(src, opts, c, e)
        hash == res.hash
        hit == GetCachedTarball(c.tars, hash)
    IN  IF res.err # "nil"
            THEN [TarResult(res.err, c, d, res.events, FALSE) EXCEPT !.fetch = res.fetch]
        ELSE IF ~hit /\ opts.Cache
            THEN [TarResult("offlineTarMiss", c, d, res.events, FALSE) EXCEPT !.fetch = res.fetch]
        ELSE IF ~hit /\ e.download = "httpFail"
            THEN [TarResult("downloadFail", c, d, res.events \cup {"download"}, FALSE)
                      EXCEPT !.fetch = res.fetch]
        ELSE IF ~hit /\ e.download = "writeFail"
            THEN [TarResult("downloadFail",
                            [c EXCEPT !.tars = @ \cup {hash}, !.bad = @ \cup {hash}],
                            d, res.events \cup {"download"}, FALSE) EXCEPT !.fetch = res.fetch]
        ELSE LET c1 == IF hit THEN c ELSE [c EXCEPT !.tars = @ \cup {hash}]
                 ev == IF hit THEN res.events ELSE res.events \cup {"download"}
                 u == UpdateCache(c1.map, c1.access, c1.tars, src.ref, hash, 0, e.cacheIo)
                 c2 == [map |-> u.map, access |-> u.access, tars |-> u.tars,
                        bad |-> c1.bad \cap u.tars]
                 x == IF hash \in c2.bad /\ e.extract = "ok" THEN "failAfter"
                      ELSE e.extract
                 written == WriteTree(d, src.repo, src.subdir, id)
                 wrote == CarriesManifest(src.repo, src.subdir)
                 r == CASE x = "ok" -> TarResult("nil", c2, written, ev, wrote)
                        [] x = "failBefore" -> TarResult("extractFail", c2, d, ev, FALSE)
                        [] OTHER -> TarResult("extractFail", c2, written, ev, wrote)
             IN  IF CacheUpdateError(u.err) # "nil"
                     THEN [TarResult(CacheUpdateError(u.err), c2, d, ev, FALSE)
                               EXCEPT !.hash = hash, !.cacheErr = u.err, !.fetch = res.fetch]
                 ELSE [r EXCEPT !.hash = hash, !.cacheErr = u.err, !.fetch = res.fetch]

\* failed: the git steps after the clone that failed
GitResult(err, d, ev, wrote) ==
    [err |-> err, dest |-> d, events |-> ev, wrote |-> wrote, failed |-> {}]

\* "Checkout specific ref if not HEAD": the commands that failed
CheckoutRef(ref, e) ==
    IF ref = "HEAD" \/ ref = "" THEN {}
    ELSE IF e.checkout THEN {}
    ELSE IF ~e.fetchRef THEN {"checkout", "fetchRef"}
    ELSE IF ~e.recheck THEN {"checkout", "recheck"}
    ELSE {"checkout"}

\* What cloneWithGit does with the failed steps: a warning at most
GitStepErrorStrict(failed) == IF failed = {} THEN "nil" ELSE "gitStepFailed"

GitStepError(failed) == "nil"

\* cloneWithGit(src, dest) under the environment's answers e.  git clone
\* refuses a destination that exists and is not empty.
\* A .git directory that os.RemoveAll could not remove stays where it is.
cloneWithGit(src, d, e, id) ==
    IF ~e.lookPath THEN GitResult("gitNotFound", d, {}, FALSE)
    ELSE LET httpsOk == e.https /\ ~HasEntries(d)
             failed == CheckoutRef(src.ref, e) \cup (IF e.rmGit THEN {} ELSE {"rmGit"})
             meta == IF e.rmGit THEN {} ELSE {".git"}
             tree == WriteTree(NoDir, src.repo, "", id)
             cloned == [tree EXCEPT !.files = @ \cup meta]
             wrote == CarriesManifest(src.repo, "")
             r == IF GitStepError(failed) # "nil"
                      THEN GitResult(GitStepError(failed), cloned, {"git"}, wrote)
                  ELSE IF src.subdir = "" THEN GitResult("nil", cloned, {"git"}, wrote)
                  ELSE IF ~e.temp THEN GitResult("tempErr", cloned, {"git"}, wrote)
                  ELSE IF ~HasSubdir(src.repo)
                      THEN GitResult("subdirNotFound", cloned, {"git"}, wrote)
                  ELSE GitResult("nil",
                                 [exists |-> TRUE, files |-> SubTree(src.repo) \cup meta,
                                  manifest |-> NoManifest],
                                 {"git"}, wrote)
         IN  IF ~httpsOk /\ ~e.ssh THEN GitResult("cloneFailed", NoDir, {"git"}, FALSE)
             ELSE [r EXCEPT !.failed = failed]

\* The error of Clone when the tar attempt and the git fallback both failed
Error(kind, names, idx) == [kind |-> kind, names |-> names, idx |-> idx]
Nil == Error("nil", {}, -1)
Plain(err) == Error(err, {err}, -1)

FallbackErrorGitOnly(tarErr, gitErr) == Plain(gitErr)

FallbackError(tarErr, gitErr) == Error("tarAndGitFailed", {tarErr, gitErr}, -1)

\* ExecuteActions wraps a failing action's error with its index and kind
ActionErrorOneBased(i, kind, cause) == Error("actionFailed", {kind, cause}, i + 1)

ActionError(i, kind, cause) == Error("actionFailed", {kind, cause}, i)

(***************************************************************************)
(* actions.go                                                              *)
(***************************************************************************)
LoadResult(err, acts, d, id) == [err |-> err, actions |-> acts, dest |-> d, parsedId |-> id]

\* LoadActions without the os.Remove of the file it has parsed
LoadActionsKeepFile(d) ==
    IF ~d.exists \/ d.manifest = NoManifest THEN LoadResult(FALSE, <<>>, d, 0)
    ELSE LET file == manifests[d.manifest.repo]
         IN  IF file.state = "bad" THEN LoadResult(TRUE, <<>>, d, 0)
             ELSE LoadResult(FALSE, file.actions, d, d.manifest.id)

\* LoadActions removing degit.json before it is parsed
LoadActionsRemoveFirst(d) ==
    IF ~d.exists \/ d.manifest = NoManifest THEN LoadResult(FALSE, <<>>, d, 0)
    ELSE LET file == manifests[d.manifest.repo]
             gone == [d EXCEPT !.manifest = NoManifest]
         IN  IF file.state = "bad" THEN LoadResult(TRUE, <<>>, gone, 0)
             ELSE LoadResult(FALSE, file.actions, gone, d.manifest.id)

\* LoadActions(destDir)
LoadActions(d) ==
    IF ~d.exists \/ d.manifest = NoManifest THEN LoadResult(FALSE, <<>>, d, 0)
    ELSE LET file == manifests[d.manifest.repo]
         IN  IF file.state = "bad" THEN LoadResult(TRUE, <<>>, d, 0)
             ELSE LoadResult(FALSE, file.actions,
                             [d EXCEPT !.manifest = NoManifest], d.manifest.id)

\* The path-traversal guard of executeRemoveAction on a listed path
EscapesRoot(file) == file = "../x"

RECURSIVE executeRemoveAction(_, _, _)
\* executeRemoveAction over the listed files; ioOk: os.Remove succeeds
executeRemoveAction(files, d, ioOk) ==
    IF files = <<>> THEN [dest |-> d, err |-> "nil"]
    ELSE LET file == Head(files)
         IN  IF EscapesRoot(file) THEN executeRemoveAction(Tail(files), d, ioOk)
             ELSE IF file \notin d.files THEN executeRemoveAction(Tail(files), d, ioOk)
             ELSE IF ~ioOk THEN [dest |-> d, err |-> "removeErr"]
             ELSE executeRemoveAction(Tail(files), [d EXCEPT !.files = @ \ {file}], ioOk)

(***************************************************************************)
(* Degit.Clone as a stack of calls                                         *)
(***************************************************************************)
Snapshot == [dest |-> dest, cache |-> repoCache, events |-> events]

NewFrame(src, opts, pre) ==
    [src |-> src, opts |-> opts, pc |-> "check", tarErr |-> "notRun",
     gitErr |-> "notRun", tarEvents |-> {}, actions |-> <<>>, ai |-> 0,
     started |-> <<>>, loadedId |-> 0, hash |-> NoHash, cacheErr |-> "notRun",
     gitFailed |-> {}, fetch |-> "notRun", pre |-> pre]

NoCaches == [r \in Repos |-> EmptyCache]

NoRet ==
    [done |-> FALSE, depth |-> 0, src |-> Src("", "", ""), opts |-> Opts(FALSE, FALSE, ""),
     err |-> Nil, tarErr |-> "notRun", gitErr |-> "notRun", tarEvents |-> {},
     nactions |-> 0, started |-> <<>>, loadedId |-> 0, hash |-> NoHash,
     cacheErr |-> "notRun", gitFailed |-> {}, fetch |-> "notRun",
     pre |-> [dest |-> NoDir, cache |-> NoCaches, events |-> {}]]

RetOf(f, err) ==
    [done |-> TRUE, depth |-> Len(stack), src |-> f.src, opts |-> f.opts, err |-> err,
     tarErr |-> f.tarErr, gitErr |-> f.gitErr, tarEvents |-> f.tarEvents,
     nactions |-> Len(f.actions), started |-> f.started, loadedId |-> f.loadedId,
     hash |-> f.hash, cacheErr |-> f.cacheErr, gitFailed |-> f.gitFailed,
     fetch |-> f.fetch, pre |-> f.pre]

Top == stack[Len(stack)]
Running(pc) == stack # <<>> /\ Top.pc = pc
SetTop(f) == stack' = [stack EXCEPT ![Len(stack)] = f]
\* the call on top returns err to its caller
Return(f, err) ==
    /\ stack' = SubSeq(stack, 1, Len(stack) - 1)
    /\ ret' = RetOf(f, err)

\* Clone: "Check if destination is empty" and the choice of mode
CloneCheck ==
    /\ Running("check")
    /\ LET f == Top
           err == IF f.opts.Force THEN "nil" ELSE checkDestEmpty(dest)
       IN  IF err # "nil" THEN Return(f, Plain(err))
           ELSE /\ SetTop([f EXCEPT !.pc = IF f.opts.Mode = "git" THEN "git" ELSE "tar"])
                /\ ret' = ret
    /\ UNCHANGED <<manifests, dest, repoCache, events, nextId, loadLog, prev>>

\* Clone: err = d.cloneWithTar(src, dest, cacheDir)
CloneTar(e) ==
    /\ Running("tar")
    /\ \E f \in {Top} :
       \E r \in {cloneWithTar(f.src, f.opts, repoCache[f.src.repo], dest, e, nextId)} :
           /\ dest' = r.dest
           /\ repoCache' = [repoCache EXCEPT ![f.src.repo] = r.cache]
           /\ events' = events \cup r.events
           /\ nextId' = IF r.wrote THEN nextId + 1 ELSE nextId
           /\ SetTop([f EXCEPT !.tarErr = r.err, !.tarEvents = r.events,
                               !.hash = r.hash, !.cacheErr = r.cacheErr, !.fetch = r.fetch,
                               !.pc = IF r.err = "nil" THEN "load" ELSE "fallback"])
    /\ UNCHANGED <<manifests, ret, loadLog, prev>>

\* Clone: "Clean up any partial extraction": os.RemoveAll(dest)
CloneFallback ==
    /\ Running("fallback")
    /\ dest' = NoDir
    /\ SetTop([Top EXCEPT !.pc = "git"])
    /\ UNCHANGED <<manifests, repoCache, ret, events, nextId, loadLog, prev>>

\* Clone: d.cloneWithGit(src, dest), in git mode or as the fallback
CloneGit(e) ==
    /\ Running("git")
    /\ \E f \in {Top} :
       \E r \in {cloneWithGit(f.src, dest, e, nextId)} :
       \E g \in {[f EXCEPT !.gitErr = r.err, !.gitFailed = r.failed]} :
           /\ dest' = r.dest
           /\ events' = events \cup r.events
           /\ nextId' = IF r.wrote THEN nextId + 1 ELSE nextId
           /\ IF r.err = "nil" THEN SetTop([g EXCEPT !.pc = "load"]) /\ ret' = ret
              ELSE IF f.tarErr # "notRun" THEN Return(g, FallbackError(f.tarErr, r.err))
              ELSE Return(g, Plain(r.err))
    /\ UNCHANGED <<manifests, repoCache, loadLog, prev>>

\* Clone: LoadActions(dest) and the test of its result
CloneLoad ==
    /\ Running("load")
    /\ LET f == Top
           l == LoadActions(dest)
       IN  /\ dest' = l.dest
           /\ loadLog' = IF l.parsedId # 0 THEN Append(loadLog, l.parsedId) ELSE loadLog
           /\ IF l.err \/ l.actions = <<>>
                 THEN Return([f EXCEPT !.loadedId = l.parsedId], Nil)
              ELSE /\ SetTop([f EXCEPT !.pc = "exec", !.actions = l.actions, !.ai = 1,
                                      !.loadedId = l.parsedId])
                   /\ ret' = ret
    /\ UNCHANGED <<manifests, repoCache, events, nextId, prev>>

CurrentAction == Top.actions[Top.ai]
\* The call on top with its current action (index i of the range loop) begun
Begun == [Top EXCEPT !.started = Append(@, [idx |-> Top.ai - 1,
                                            kind |-> CurrentAction.action])]
AtAction(kinds) ==
    /\ Running("exec")
    /\ Top.ai <= Len(Top.actions)
    /\ CurrentAction.action \in kinds

\* ExecuteActions: case "remove"
ExecRemove(ioOk) ==
    /\ AtAction({"remove"})
    /\ LET f == Begun
           r == executeRemoveAction(CurrentAction.files, dest, ioOk)
       IN  /\ dest' = r.dest
           /\ IF r.err # "nil" THEN Return(f, ActionError(f.ai - 1, "remove", r.err))
              ELSE SetTop([f EXCEPT !.ai = @ + 1]) /\ ret' = ret
    /\ UNCHANGED <<manifests, repoCache, events, nextId, loadLog, prev>>

\* ExecuteActions: case "clone", up to the nested Clone call
ExecClone ==
    /\ AtAction({"clone"})
    /\ LET f == Begun
           a == CurrentAction
           parsed == ParseActionSrc(a.src)
       IN  IF a.src = "" THEN Return(f, ActionError(f.ai - 1, "clone", "noSrc"))
           ELSE IF ~parsed.ok THEN Return(f, ActionError(f.ai - 1, "clone", "badSrc"))
           ELSE /\ Len(stack) < MaxDepth
                /\ stack' = Append([stack EXCEPT ![Len(stack)] = [f EXCEPT !.pc = "wait"]],
                                   NewFrame(parsed.src,
                                            Opts(TRUE, a.cache, f.opts.Mode), Snapshot))
                /\ ret' = ret
    /\ UNCHANGED <<manifests, dest, repoCache, events, nextId, loadLog, prev>>

\* ExecuteActions: the nested Clone call of a clone action has returned
ExecCloneReturned ==
    /\ Running("wait")
    /\ ret.done
    /\ LET f == Top
       IN  IF ret.err.kind # "nil"
               THEN Return(f, ActionError(f.ai - 1, "clone", ret.err.kind))
           ELSE SetTop([f EXCEPT !.pc = "exec", !.ai = @ + 1]) /\ ret' = NoRet
    /\ UNCHANGED <<manifests, dest, repoCache, events, nextId, loadLog, prev>>

\* ExecuteActions: default case, an unknown action is skipped
ExecOther ==
    /\ Running("exec")
    /\ Top.ai <= Len(Top.actions)
    /\ CurrentAction.action \notin {"clone", "remove"}
    /\ SetTop([Begun EXCEPT !.ai = @ + 1])
    /\ UNCHANGED <<manifests, dest, repoCache, ret, events, nextId, loadLog, prev>>

\* ExecuteActions returns nil after the last action; Clone returns nil
ExecDone ==
    /\ Running("exec")
    /\ Top.ai > Len(Top.actions)
    /\ Return(Top, Nil)
    /\ UNCHANGED <<manifests, dest, repoCache, events, nextId, loadLog, prev>>

\* After an online Clone that succeeded through the tar path: the same
\* source is cloned again, offline, into another, empty destination
NoPrev == [done |-> FALSE, src |-> Src("", "", ""), hash |-> NoHash, cacheErr |-> "notRun"]

CloneAgain(d) ==
    /\ stack = <<>>
    /\ ret.done
    /\ ~prev.done
    /\ ~ret.opts.Cache /\ ret.opts.Mode = "tar"
    /\ ret.err = Nil /\ ret.tarErr = "nil"
    /\ prev' = [done |-> TRUE, src |-> ret.src, hash |-> ret.hash,
                cacheErr |-> ret.cacheErr]
    /\ ret' = NoRet
    /\ dest' = d
    /\ events' = {}
    /\ nextId' = 1
    /\ loadLog' = <<>>
    /\ stack' = <<NewFrame(ret.src, Opts(FALSE, TRUE, "tar"),
                           [dest |-> d, cache |-> repoCache, events |-> {}])>>
    /\ UNCHANGED <<manifests, repoCache>>

TarEnvs ==
    [fetch : {"ok", "fail"}, resolve : {"h1", "fail"},
     download : {"ok", "httpFail", "writeFail"},
     cacheIo : {"ok", "accessFail", "mapFail"},
     extract : {"ok", "failBefore", "failAfter"}]

\* The answers of the git binary and the file system to cloneWithGit, with
\* the checkout and the removal of .git working
GitEnvs ==
    [lookPath : BOOLEAN, https : BOOLEAN, ssh : BOOLEAN, temp : BOOLEAN,
     checkout : {TRUE}, fetchRef : {TRUE}, recheck : {TRUE}, rmGit : {TRUE}]

\* ... with the clone working and the later steps failing or not
GitStepEnvs ==
    [lookPath : {TRUE}, https : {TRUE}, ssh : {TRUE}, temp : {TRUE},
     checkout : BOOLEAN, fetchRef : BOOLEAN, recheck : BOOLEAN, rmGit : BOOLEAN]

\* The cache directory of the requested repository before the call
InitCaches(ref) ==
    { EmptyCache,
      [EmptyCache EXCEPT !.map = Saved(Put(EmptyMap, ref, "h1")), !.tars = {"h1"}],
      [EmptyCache EXCEPT !.map = Saved(Put(EmptyMap, ref, "h1"))] }

CloneInit ==
    /\ manifests \in Worlds
    /\ dest \in {NoDir, EmptyDir, [EmptyDir EXCEPT !.files = {"x"}]}
    /\ events = {}
    /\ nextId = 1
    /\ loadLog = <<>>
    /\ ret = NoRet
    /\ prev = NoPrev
    /\ \E src \in TopSources, force \in BOOLEAN, cache \in BOOLEAN,
          mode \in {"tar", "git"} :
          /\ \E c \in InitCaches(src.ref) :
                repoCache = [NoCaches EXCEPT ![src.repo] = c]
          /\ stack = <<NewFrame(src, Opts(force, cache, mode),
                                [dest |-> dest, cache |-> repoCache, events |-> {}])>>

CloneIdle ==
    /\ manifests = [r \in Repos |-> NoFile]
    /\ dest = NoDir
    /\ repoCache = NoCaches
    /\ stack = <<>>
    /\ ret = NoRet
    /\ events = {}
    /\ nextId = 1
    /\ loadLog = <<>>
    /\ prev = NoPrev

(***************************************************************************)
(* actions.go: executeRemoveAction on real paths.  destDir is xDest and    *)
(* the file system is xFs.                                                 *)
(***************************************************************************)
MaxFiles == 2

\* hasPrefix(path, prefix) with the prefix compared character by character
hasPrefixChars(path, prefix) == HasPrefix(Clean(path), Clean(prefix))

\* hasPrefix(path, prefix)
hasPrefix(path, prefix) ==
    LET p == Clean(path)
        q == Clean(prefix)
    IN  \/ p = q
        \/ /\ Len(p) > Len(q)
           /\ p[Len(q) + 1] = Sep
           /\ SubSeq(p, 1, Len(q)) = q

\* os.Stat(p): "file", "dir", "notExist", or "statErr" when a component
\* of p above its last one is a regular file (ENOTDIR)
Stat(fs, p) ==
    IF KindAt(fs, p) # "none" THEN KindAt(fs, p)
    ELSE IF \E q \in PathPrefixes(p) : KindAt(fs, q) = "file" THEN "statErr"
    ELSE "notExist"

\* The body of the range loop of executeRemoveAction for one listed path
RemoveOne(fs, destDir, file, ioOk) ==
    LET filePath == FilepathJoin(<<destDir, file>>)
        cleanPath == Clean(filePath)
        st == Stat(fs, filePath)
    IN  IF ~hasPrefix(cleanPath, Clean(destDir)) THEN Step(fs, "nil", "skipTraversal")
        ELSE IF st = "notExist" THEN Step(fs, "nil", "skipMissing")
        ELSE IF st = "statErr" THEN Step(fs, "statErr", "statErr")
        ELSE IF ~ioOk THEN Step(fs, "removeErr", "ioerr")
        ELSE IF st = "dir"
            THEN Step({o \in fs : ~(o.path = filePath
                                    \/ HasPrefix(o.path, filePath \o <<Sep>>))},
                      "nil", "removed")
        ELSE Step({o \in fs : o.path # filePath}, "nil", "removed")

\* The paths a degit.json may list, for a destination /t/o or /w
ListedPaths ==
    { Path(<<cA>>),                        \* a: a file
      Path(<<cS>>),                        \* s: a directory
      Path(<<<<"g">>>>),                   \* g: missing
      Path(<<cA, cB>>),                    \* a/b: below a file
      Path(<<cS, DotDot, cA>>),            \* s/../a: the file a
      Dot,                                 \* .: the destination itself
      Path(<<DotDot, cOA, cB>>),           \* ../oa/b: in the sibling /t/oa
      Path(<<DotDot, DotDot, cE, cP>>),    \* ../../e/p
      Path(<<cNone, cE, cP>>) }            \* /e/p

RECURSIVE SeqsUpTo(_, _)
SeqsUpTo(S, n) ==
    IF n = 0 THEN {<<>>}
    ELSE LET shorter == SeqsUpTo(S, n - 1)
         IN  shorter \cup {Append(q, x) : q \in shorter, x \in S}

\* The file system when the action runs: the acquired tree a, s/, s/b in
\* destDir, and outside it /t/oa/b and /e/p
RemoveFs(dir) ==
    LET mk(comps) == Path(comps)
        dirs == {dir, FilepathJoin(<<dir, cS>>), mk(<<cNone, <<"t">>, cOA>>),
                 mk(<<cNone, cE>>)}
        files == {FilepathJoin(<<dir, cA>>), FilepathJoin(<<dir, Path(<<cS, cB>>)>>),
                  mk(<<cNone, <<"t">>, cOA, cB>>), mk(<<cNone, cE, cP>>)}
    IN  UNION {{Obj(q, "dir", <<>>) : q \in PathPrefixes(d)} : d \in dirs}
            \cup {Obj(f, "file", <<>>) : f \in files}

RemoveInit ==
    /\ rFiles \in SeqsUpTo(ListedPaths, MaxFiles)
    /\ rIdx = 1
    /\ rErr = "running"
    /\ rLog = <<>>
    /\ xDest \in DestDirs
    /\ xFs = RemoveFs(xDest)
    /\ xOpts = [StripComponents |-> 0, Subdir |-> <<>>]
    /\ xPc = "returned"
    /\ xErr = "nil"
    /\ xRead = <<>>
    /\ xLog = <<>>

RemoveIdle ==
    /\ rFiles = <<>>
    /\ rIdx = 1
    /\ rErr = "nil"
    /\ rLog = <<>>

\* executeRemoveAction: one iteration of "for _, file := range action.Files"
RemoveNext(ioOk) ==
    /\ rErr = "running"
    /\ rIdx <= Len(rFiles)
    /\ LET r == RemoveOne(xFs, xDest, rFiles[rIdx], ioOk)
       IN  /\ xFs' = r.fs
           /\ rErr' = IF r.err = "nil" THEN "running" ELSE r.err
           /\ rLog' = Append(rLog, r.did)
    /\ rIdx' = rIdx + 1
    /\ UNCHANGED <<rFiles, xDest, xOpts, xPc, xErr, xRead, xLog>>

\* executeRemoveAction: "return nil", for an empty list or after the loop
RemoveReturn ==
    /\ rErr = "running"
    /\ rIdx > Len(rFiles)
    /\ rErr' = "nil"
    /\ UNCHANGED <<rFiles, rIdx, rLog, extractVars>>

(***************************************************************************)
(* The authenticated HTTP clients: downloadGitHubTarball (download) and    *)
(* auth.GitHubRequestWithHeaders (api), each following redirects.          *)
(***************************************************************************)
MaxRedirects == 10
MaxHops == 10

ApiHost == "api.github.com"
Hosts == {"api.github.com", "github.com", "codeload.github.com",
          "objects.githubusercontent.com", "evil.example", "github.com.evil.example"}

\* isGitHubDomain(host)
isGitHubDomain(host) ==
    host \in {"api.github.com", "github.com", "codeload.github.com",
              "objects.githubusercontent.com"}

\* CheckRedirect of GitHubRequestWithHeaders: every header of req is set
\* on the redirected request r
ApiCheckRedirect(h, target, carried) ==
    [err |-> FALSE, auth |-> carried \/ h.token]

\* CheckRedirect of downloadGitHubTarball; h.hops is len(via)
DownloadCheckRedirect(h, target, carried) ==
    IF h.hops >= MaxRedirects THEN [err |-> TRUE, auth |-> carried]
    ELSE [err |-> FALSE, auth |-> carried \/ (isGitHubDomain(target) /\ h.token)]

HttpIdle ==
    http = [client |-> "none", token |-> FALSE, hops |-> 0, host |-> "", auth |-> FALSE,
            stripped |-> FALSE, sent |-> {}, state |-> "done"]

\* client.Do(req): the first request goes to the API host, with the
\* Authorization header when a token is available
HttpInit ==
    \E cl \in {"download", "api"}, tok \in BOOLEAN :
        http = [client |-> cl, token |-> tok, hops |-> 1, host |-> ApiHost, auth |-> tok,
                stripped |-> FALSE, sent |-> {[host |-> ApiHost, auth |-> tok]},
                state |-> "sent"]

\* The server answers with a redirect to target.  net/http copies the
\* first request's Authorization only while every hop stayed on the first
\* request's host, then runs CheckRedirect, then sends the request.
HttpRedirect(target) ==
    /\ http.state = "sent"
    /\ http.hops < MaxHops \/ http.client = "download"
    /\ LET stripped == http.stripped \/ target # ApiHost
           carried == http.token /\ ~stripped
           cr == IF http.client = "download"
                    THEN DownloadCheckRedirect(http, target, carried)
                 ELSE ApiCheckRedirect(http, target, carried)
       IN  IF cr.err THEN http' = [http EXCEPT !.state = "error"]
           ELSE http' = [http EXCEPT !.hops = @ + 1, !.host = target, !.auth = cr.auth,
                                     !.stripped = stripped,
                                     !.sent = @ \cup {[host |-> target, auth |-> cr.auth]}]
    /\ UNCHANGED <<removeVars, rr>>

\* The server answers with a final status
HttpRespond ==
    /\ http.state = "sent"
    /\ http' = [http EXCEPT !.state = "done"]
    /\ UNCHANGED <<removeVars, rr>>

(***************************************************************************)
(* ResolveRef.  Reference names and commit ids are character sequences.    *)
(***************************************************************************)
MaxRefs == 3
\* "len(refName) >= 8" written with the threshold one lower
PrefixMinLenSeven == 8 - 1
PrefixMinLen == 8
FullHashLen == 40

Rep(ch, n) == [i \in 1..n |-> ch]
HeadName == <<"H", "E", "A", "D">>
MainName == <<"m", "a", "i", "n">>
\* Three commit ids; the first two share their first 8 characters
HashA == Rep("a", 40)
HashAB == Rep("a", 8) \o Rep("b", 32)
HashC == Rep("c", 40)

Ref(t, n, h) == [Type |-> t, Name |-> n, Hash |-> h]

\* The references a remote may advertise
RefPool ==
    { Ref("HEAD", HeadName, HashA),
      Ref("branch", MainName, HashA),
      Ref("tag", MainName, HashC),            \* a tag named like a branch
      Ref("branch", Rep("c", 8), HashAB),     \* a branch named like a prefix of HashC
      Ref("tag", <<"v", "1">>, HashC),
      Ref("tag", Rep("a", 8), HashC),         \* a tag named like a prefix of HashA
      Ref("branch", <<"d", "e", "v">>, HashAB) }

RefNames ==
    { <<>>, HeadName, MainName, <<"v", "1">>, <<"z", "z">>,
      Rep("a", 7), Rep("a", 8), Rep("a", 8) \o <<"b">>, Rep("c", 7), Rep("c", 8),
      HashA, Rep("d", 40), Rep("g", 40), Rep("d", 41) }

\* isHex(s) answering true for every string
isHexAlways(str) == TRUE

\* isHex(s)
isHex(str) ==
    \A i \in 1..Len(str) :
        str[i] \in {"0", "1", "2", "3", "4", "5", "6", "7", "8", "9",
                    "a", "b", "c", "d", "e", "f", "A", "B", "C", "D", "E", "F"}

\* Index of the first element of refs that satisfies Test, 0 if none
FirstRef(refs, Test(_)) ==
    LET hits == {i \in 1..Len(refs) : Test(refs[i])}
    IN  IF hits = {} THEN 0 ELSE CHOOSE i \in hits : \A j \in hits : i <= j

\* The branch and tag loops with the test of ref.Type left out
FirstNamedAnyType(refs, type, name) ==
    LET Test(r) == r.Name = name IN FirstRef(refs, Test)

\* "for _, ref := range refs { if ref.Type == type && ref.Name == refName"
FirstNamed(refs, type, name) ==
    LET Test(r) == r.Type = type /\ r.Name = name IN FirstRef(refs, Test)

\* The partial-hash loop keeping the last match instead of returning the first
FirstPrefixedLast(refs, name) ==
    LET hits == {i \in 1..Len(refs) : HasPrefix(refs[i].Hash, name)}
    IN  IF hits = {} THEN 0 ELSE CHOOSE i \in hits : \A j \in hits : i >= j

\* "for _, ref := range refs { if strings.HasPrefix(ref.Hash, refName)"
FirstPrefixed(refs, name) ==
    LET Test(r) == HasPrefix(r.Hash, name) IN FirstRef(refs, Test)

Resolved(h) == [hash |-> h, err |-> "nil"]
Unresolved(e) == [hash |-> <<>>, err |-> e]

\* ResolveRef(refs, refName)
ResolveRef(refs, refName) ==
    IF refName = <<>> \/ refName = HeadName
        THEN LET IsHead(r) == r.Type = "HEAD"
                 i == FirstRef(refs, IsHead)
             IN  IF i # 0 THEN Resolved(refs[i].Hash) ELSE Unresolved("noHead")
    ELSE LET b == FirstNamed(refs, "branch", refName)
             t == FirstNamed(refs, "tag", refName)
             p == IF Len(refName) >= PrefixMinLen THEN FirstPrefixed(refs, refName) ELSE 0
         IN  IF b # 0 THEN Resolved(refs[b].Hash)
             ELSE IF t # 0 THEN Resolved(refs[t].Hash)
             ELSE IF p # 0 THEN Resolved(refs[p].Hash)
             ELSE IF Len(refName) = FullHashLen /\ isHex(refName) THEN Resolved(refName)
             ELSE Unresolved("unresolved")

ResolveIdle == rr = [refs |-> <<>>, name |-> <<>>, done |-> TRUE, hash |-> <<>>, err |-> "nil"]

ResolveInit ==
    \E refs \in SeqsUpTo(RefPool, MaxRefs), name \in RefNames :
        rr = [refs |-> refs, name |-> name, done |-> FALSE, hash |-> <<>>, err |-> "nil"]

\* The call ResolveRef(rr.refs, rr.name) returns
ResolveCall ==
    /\ ~rr.done
    /\ LET r == ResolveRef(rr.refs, rr.name)
       IN  rr' = [rr EXCEPT !.done = TRUE, !.hash = r.hash, !.err = r.err]
    /\ UNCHANGED <<removeVars, http>>

(***************************************************************************)
(* part_002: ParseSource.  Source strings are character sequences and      *)
(* sourceRegex is matched on them as Go's regexp does (leftmost-first).    *)
(***************************************************************************)
\* The first position from i on that holds a character of stop, or Len(s) + 1
Until(s, i, stop) ==
    LET K == {k \in i..Len(s) : s[k] \in stop}
    IN  IF K = {} THEN Len(s) + 1 ELSE CHOOSE k \in K : \A m \in K : k <= m

\* strings.TrimSuffix(s, suffix)
TrimSuffix(s, suffix) ==
    IF Len(s) >= Len(suffix) /\ SubSeq(s, Len(s) - Len(suffix) + 1, Len(s)) = suffix
        THEN SubSeq(s, 1, Len(s) - Len(suffix))
    ELSE s

Space == " "
HttpsScheme == <<"h", "t", "t", "p", "s", ":", "/", "/">>
GitAt == <<"g", "i", "t", "@">>
Github == <<"g", "i", "t", "h", "u", "b">>
Gitlab == <<"g", "i", "t", "l", "a", "b">>
Bitbucket == <<"b", "i", "t", "b", "u", "c", "k", "e", "t">>
GitSrHt == <<"g", "i", "t", ".", "s", "r", ".", "h", "t">>
DotCom == <<".", "c", "o", "m">>
DotOrg == <<".", "o", "r", "g">>
DotGit == <<".", "g", "i", "t">>
HeadRef == <<"H", "E", "A", "D">>

supportedHosts == {Github, Gitlab, Bitbucket, GitSrHt}

RECURSIVE SubdirEnd(_, _)
\* (?:\/[^/\s#]+)+ from position p: the position after the last segment
SubdirEnd(s, p) ==
    IF p <= Len(s) /\ s[p] = Sep /\ Until(s, p + 1, {Sep, Space, "#"}) > p + 1
        THEN SubdirEnd(s, Until(s, p + 1, {Sep, Space, "#"}))
    ELSE p

NoMatch == [ok |-> FALSE, site |-> <<>>, owner |-> <<>>, repo |-> <<>>,
            subdir |-> <<>>, ref |-> <<>>]

\* ([^/\s]+)\/([^/\s#]+)(?:((?:\/[^/\s#]+)+))?(?:\/)?(?:#(.+))?$ from
\* position i, after a prefix that captured site
MatchTail(s, i, site) ==
    LET oEnd == Until(s, i, {Sep, Space})
        rEnd == Until(s, oEnd + 1, {Sep, Space, "#"})
        dEnd == SubdirEnd(s, rEnd)
        q == IF dEnd <= Len(s) /\ s[dEnd] = Sep THEN dEnd + 1 ELSE dEnd
        m == [ok |-> TRUE, site |-> site, owner |-> SubSeq(s, i, oEnd - 1),
              repo |-> SubSeq(s, oEnd + 1, rEnd - 1),
              subdir |-> SubSeq(s, rEnd, dEnd - 1), ref |-> <<>>]
    IN  IF oEnd = i \/ oEnd > Len(s) \/ s[oEnd] # Sep \/ rEnd = oEnd + 1 THEN NoMatch
        ELSE IF q = Len(s) + 1 THEN m
        ELSE IF s[q] = "#" /\ q < Len(s) THEN [m EXCEPT !.ref = SubSeq(s, q + 1, Len(s))]
        ELSE NoMatch

\* (?:https:\/\/)?([^:/]+\.[^:/]+)\/ with the host starting at position i
MatchHost(s, i) ==
    LET hEnd == Until(s, i, {":", Sep})
    IN  IF hEnd <= Len(s) /\ s[hEnd] = Sep
           /\ \E k \in (i + 1)..(hEnd - 2) : s[k] = "."
            THEN MatchTail(s, hEnd + 1, SubSeq(s, i, hEnd - 1))
        ELSE NoMatch

\* git@([^:/]+)[:/]
MatchGitAt(s) ==
    LET hEnd == Until(s, 5, {":", Sep})
    IN  IF HasPrefix(s, GitAt) /\ hEnd > 5 /\ hEnd <= Len(s)
            THEN MatchTail(s, hEnd + 1, SubSeq(s, 5, hEnd - 1))
        ELSE NoMatch

RECURSIVE MatchSite(_, _)
\* ([^/]+): with the colon at position k or, failing that, at an earlier one
MatchSite(s, k) ==
    IF k < 2 THEN NoMatch
    ELSE IF s[k] = ":" /\ MatchTail(s, k + 1, SubSeq(s, 1, k - 1)).ok
        THEN MatchTail(s, k + 1, SubSeq(s, 1, k - 1))
    ELSE MatchSite(s, k - 1)

RECURSIVE FirstOk(_)
FirstOk(ms) ==
    IF ms = <<>> THEN NoMatch
    ELSE IF Head(ms).ok THEN Head(ms)
    ELSE FirstOk(Tail(ms))

\* sourceRegex.FindStringSubmatch(src): the alternatives of the prefix in
\* the order of the pattern, then no prefix
sourceRegex(s) ==
    FirstOk(<< IF HasPrefix(s, HttpsScheme) THEN MatchHost(s, Len(HttpsScheme) + 1)
               ELSE NoMatch,
               MatchHost(s, 1),
               MatchGitAt(s),
               MatchSite(s, Until(s, 1, {Sep}) - 1),
               MatchTail(s, 1, <<>>) >>)

\* getDomain(site)
getDomain(site) ==
    IF site = Github THEN Github \o DotCom
    ELSE IF site = Gitlab THEN Gitlab \o DotCom
    ELSE IF site = Bitbucket THEN Bitbucket \o DotOrg
    ELSE IF site = GitSrHt THEN GitSrHt
    ELSE site \o DotCom

ParseError(err) ==
    [err |-> err, site |-> <<>>, owner |-> <<>>, repo |-> <<>>, ref |-> <<>>,
     subdir |-> <<>>, url |-> <<>>, ssh |-> <<>>]

Descriptor(site, owner, repo, ref, subdir) ==
    [err |-> "nil", site |-> site, owner |-> owner, repo |-> repo, ref |-> ref,
     subdir |-> subdir,
     url |-> HttpsScheme \o getDomain(site) \o <<Sep>> \o owner \o <<Sep>> \o repo,
     ssh |-> GitAt \o getDomain(site) \o <<":">> \o owner \o <<Sep>> \o repo]

\* The repo segment without its version-control suffix
RepoNameKeepSuffix(seg) == seg

RepoName(seg) == TrimSuffix(seg, DotGit)

\* ParseSource(src)
ParseSource(src) ==
    LET match == sourceRegex(src)
        named == IF match.site = <<>> THEN Github ELSE match.site
        site == TrimSuffix(TrimSuffix(named, DotCom), DotOrg)
    IN  IF ~match.ok THEN ParseError("couldNotParse")
        ELSE IF site \notin supportedHosts THEN ParseError("unsupportedHost")
        ELSE Descriptor(site, match.owner, RepoName(match.repo),
                        IF match.ref = <<>> THEN HeadRef ELSE match.ref, match.subdir)

(***************************************************************************)
(* cloneWithGit: "Handle subdirectory extraction for git mode", one file   *)
(* system call per step.  full: the entries of the clone at the top of     *)
(* dest; sub: the entries of dest/s; temp: the entries of the temporary    *)
(* directory; moved: the entries renamed from it into dest.                *)
(***************************************************************************)
MoveSubdir == "s"
MoveRoots == { {"fa", "common", MoveSubdir}, {".git", "fa", MoveSubdir}, {"fb", "common"} }
MoveChildren == {"sa", "common"}

MoveState(pc, full, sub, temp, moved, pending, ignored, err) ==
    [pc |-> pc, full |-> full, sub |-> sub, temp |-> temp, moved |-> moved,
     pending |-> pending, ignored |-> ignored, err |-> err]

MoveIdle == mv = MoveState("idle", {}, {}, {}, {}, {}, FALSE, "nil")

MoveInit ==
    \E full \in MoveRoots, sub \in SUBSET MoveChildren :
        /\ (MoveSubdir \notin full) => sub = {}
        /\ mv = MoveState("start", full, sub, {}, {}, {}, FALSE, "nil")

\* A return with an error; the deferred os.RemoveAll(tempDir) runs
MoveFail(err) == mv' = [mv EXCEPT !.pc = "failed", !.err = err, !.temp = {}, !.pending = {}]

\* os.MkdirTemp and os.ReadDir(subdir)
MoveBegin(tempOk) ==
    /\ mv.pc = "start"
    /\ IF ~tempOk THEN MoveFail("tempErr")
       ELSE IF MoveSubdir \notin mv.full THEN MoveFail("subdirNotFound")
       ELSE mv' = [mv EXCEPT !.pc = "moveOut", !.pending = mv.sub]

\* "Move subdirectory contents to temp": one os.Rename
MoveOutOne(n, ok) ==
    /\ mv.pc = "moveOut"
    /\ n \in mv.pending
    /\ IF ~ok THEN MoveFail("moveErr")
       ELSE mv' = [mv EXCEPT !.sub = @ \ {n}, !.temp = @ \cup {n}, !.pending = @ \ {n}]

\* entries, _ = os.ReadDir(dest): an error leaves no entry to remove
MoveOutDone(readOk) ==
    /\ mv.pc = "moveOut"
    /\ mv.pending = {}
    /\ mv' = [mv EXCEPT !.pc = "clear",
                        !.pending = IF readOk THEN mv.full ELSE {},
                        !.ignored = @ \/ (~readOk /\ mv.full # {})]

\* "Clear destination": one os.RemoveAll, its error dropped
ClearOne(n, ok) ==
    /\ mv.pc = "clear"
    /\ n \in mv.pending
    /\ mv' = [mv EXCEPT !.full = IF ok THEN @ \ {n} ELSE @,
                        !.pending = @ \ {n},
                        !.ignored = @ \/ ~ok]

\* entries, _ = os.ReadDir(tempDir)
ClearDone(readOk) ==
    /\ mv.pc = "clear"
    /\ mv.pending = {}
    /\ mv' = [mv EXCEPT !.pc = "moveIn", !.pending = IF readOk THEN mv.temp ELSE {}]

\* "Move temp contents to destination": one os.Rename, which replaces an
\* entry of the same name that is still there
MoveInOne(n, ok) ==
    /\ mv.pc = "moveIn"
    /\ n \in mv.pending
    /\ IF ~ok THEN MoveFail("moveErr")
       ELSE mv' = [mv EXCEPT !.temp = @ \ {n}, !.moved = @ \cup {n},
                             !.full = @ \ {n}, !.pending = @ \ {n}]

\* return nil; the deferred os.RemoveAll(tempDir) runs
MoveInDone ==
    /\ mv.pc = "moveIn"
    /\ mv.pending = {}
    /\ mv' = [mv EXCEPT !.pc = "done", !.temp = {}]

\* ---- ParseSource driven over the documented forms of one repository ----
Forms == {"bare", "site", "https", "ssh"}

\* The parts a source string is written from: owner, repository name (with
\* or without a ".git" suffix), subdirectory and ref
\* Owners are account names of the hosts: letters, digits and hyphens
ParseOwners == {<<"u">>, <<"u", "-", "2">>}
ParseRepos == {<<"r">>, <<"r", ".", "j", "s">>}
ParseSubdirs == {<<>>, <<Sep, "s">>, <<Sep, "s", Sep, "t">>}
ParseRefs == {<<>>, <<"v", "1">>, <<"f", Sep, "x">>}
ParseHosts == {Github, Gitlab, Bitbucket}

NotParsed == ParseError("notParsed")

ParseState(host, owner, repo, suffix, subdir, ref) ==
    [host |-> host, owner |-> owner, repo |-> repo, suffix |-> suffix,
     subdir |-> subdir, ref |-> ref, out |-> [f \in Forms |-> NotParsed]]

ParseIdle == ps = ParseState(Github, <<"u">>, <<"r">>, FALSE, <<>>, <<>>)

ParseInit ==
    \E host \in ParseHosts, owner \in ParseOwners, repo \in ParseRepos,
       suffix \in BOOLEAN, subdir \in ParseSubdirs, ref \in ParseRefs :
        ps = ParseState(host, owner, repo, suffix, subdir, ref)

\* The source string of a form: user/repo, github:user/repo,
\* https://github.com/user/repo, git@github.com:user/repo, each with the
\* subdirectory and #ref
SourceOf(form, p) ==
    LET prefix == IF form = "bare" THEN <<>>
                  ELSE IF form = "site" THEN p.host \o <<":">>
                  ELSE IF form = "https" THEN HttpsScheme \o getDomain(p.host) \o <<Sep>>
                  ELSE GitAt \o getDomain(p.host) \o <<":">>
    IN  prefix \o p.owner \o <<Sep>> \o p.repo
            \o (IF p.suffix THEN DotGit ELSE <<>>) \o p.subdir
            \o (IF p.ref = <<>> THEN <<>> ELSE <<"#">> \o p.ref)

\* One call of ParseSource on the form's string; the bare form names the
\* default host only
ParseForm(form) ==
    /\ ps.out[form] = NotParsed
    /\ form = "bare" => ps.host = Github
    /\ ps' = [ps EXCEPT !.out[form] = ParseSource(SourceOf(form, ps))]

(***************************************************************************)
(* cloneWithGit up to the checkout: exec.LookPath, the HTTPS clone, and on *)
(* its failure os.RemoveAll(dest) and the SSH clone.  One action per call. *)
(***************************************************************************)
\* What a failed git clone reports (the exit status of the subprocess)
CloneCauses == {"exit128", "exit1"}

\* What a failed clone can leave in dest
Leftovers == {{}, {".git"}}

NoAttemptError == [kind |-> "nil", https |-> "nil", ssh |-> "nil"]

\* An error that names only the last cause
CloneErrorLastOnly(httpsErr, sshErr) == [kind |-> "cloneFailed", https |-> "nil", ssh |-> sshErr]

\* fmt.Errorf("git clone failed (HTTPS: %v, SSH: %v)", err, sshErr)
CloneError(httpsErr, sshErr) == [kind |-> "cloneFailed", https |-> httpsErr, ssh |-> sshErr]

AttemptState(pc, repo, verbose, entries) ==
    [pc |-> pc, repo |-> repo, verbose |-> verbose, dest |-> entries, log |-> <<>>,
     httpsErr |-> "nil", err |-> NoAttemptError]

AttemptIdle == ga = AttemptState("idle", "A", FALSE, {})

\* dest is empty or absent, or holds entries when Clone ran with Force
AttemptInit ==
    \E repo \in {"A", "B"}, verbose \in BOOLEAN, entries \in {{}, {"old"}} :
        ga = AttemptState("lookPath", repo, verbose, entries)

\* if _, err := exec.LookPath("git"); err != nil { return "git not found in PATH" }
AttemptLookPath(found) ==
    /\ ga.pc = "lookPath"
    /\ ga' = IF found THEN [ga EXCEPT !.pc = "https", !.log = Append(@, "lookPath")]
             ELSE [ga EXCEPT !.pc = "failed", !.log = Append(@, "lookPath"),
                             !.err = [NoAttemptError EXCEPT !.kind = "gitNotFound"]]

\* git clone --depth 1 src.URL + ".git" dest; git refuses a destination
\* that is not empty
AttemptHttps(cause, left) ==
    /\ ga.pc = "https"
    /\ ga.dest # {} => cause # "nil" /\ left = ga.dest
    /\ ga.dest = {} => left \in Leftovers
    /\ ga' = IF cause = "nil"
                 THEN [ga EXCEPT !.pc = "checkout", !.log = Append(@, "cloneHttps"),
                                 !.dest = {".git", "tree"}]
             ELSE [ga EXCEPT !.pc = "clear", !.log = Append(@, "cloneHttps"),
                             !.dest = left, !.httpsErr = cause]

\* os.RemoveAll(dest), its error dropped
AttemptClear(ioOk) ==
    /\ ga.pc = "clear"
    /\ ga' = [ga EXCEPT !.pc = "ssh", !.log = Append(@, "removeAll"),
                        !.dest = IF ioOk THEN {} ELSE @]

\* git clone --depth 1 src.SSH dest
AttemptSsh(cause, left) ==
    /\ ga.pc = "ssh"
    /\ ga.dest # {} => cause # "nil" /\ left = ga.dest
    /\ ga.dest = {} => left \in Leftovers
    /\ ga' = IF cause = "nil"
                 THEN [ga EXCEPT !.pc = "checkout", !.log = Append(@, "cloneSsh"),
                                 !.dest = {".git", "tree"}]
             ELSE [ga EXCEPT !.pc = "failed", !.log = Append(@, "cloneSsh"), !.dest = left,
                             !.err = CloneError(ga.httpsErr, cause)]

(***************************************************************************)
(* FetchRefsWithToken: the GitHub API sequence (repository, default        *)
(* branch, branches, tags) and FetchRefs (git ls-remote), one action per   *)
(* request.                                                                *)
(***************************************************************************)
DevName == <<"d", "e", "v">>
TagName == <<"v", "1">>

\* per_page=100 in the branches and tags requests
PerPage == 100

\* The one response the listing request gets: the first page
FirstPage(list) == SubSeq(list, 1, IF Len(list) < PerPage THEN Len(list) ELSE PerPage)

\* A repository with one branch more than a page holds, and main
ManyBranches ==
    [i \in 1..(PerPage + 2) |->
        IF i = PerPage + 2 THEN Ref("branch", MainName, HashA)
        ELSE Ref("branch", Rep("b", i), HashC)]

\* What the remote holds: its branches (in the order of the listings), its
\* tags and the name of its default branch
Remotes ==
    { [branches |-> ManyBranches, tags |-> <<>>, default |-> MainName],
      [branches |-> <<Ref("branch", MainName, HashA)>>, tags |-> <<>>, default |-> MainName],
      [branches |-> <<Ref("branch", DevName, HashC), Ref("branch", MainName, HashA)>>,
       tags |-> <<Ref("tag", TagName, HashC)>>, default |-> MainName],
      [branches |-> <<Ref("branch", DevName, HashC), Ref("branch", MainName, HashA)>>,
       tags |-> <<Ref("tag", TagName, HashC)>>, default |-> DevName] }

\* The commit of the remote's branch of that name
BranchCommit(remote, name) ==
    remote.branches[CHOOSE i \in DOMAIN remote.branches : remote.branches[i].Name = name].Hash

\* The list git ls-remote prints: HEAD, then refs/heads/*, then refs/tags/*
LsRemoteRefs(remote) ==
    <<Ref("HEAD", HeadName, BranchCommit(remote, remote.default))>>
        \o remote.branches \o remote.tags

\* for _, b := range branches { if b.Name == defaultBranch { continue }; append }
SkipNamed(list, name) == SelectSeq(list, LAMBDA b : b.Name # name)

FetchState(pc, site, token, remote) ==
    [pc |-> pc, site |-> site, token |-> token, remote |-> remote,
     defaultBranch |-> <<>>, refs |-> <<>>, failed |-> {}, via |-> "none", err |-> "nil"]

FetchIdle ==
    fr = FetchState("idle", Github, FALSE, [branches |-> <<>>, tags |-> <<>>, default |-> <<>>])

FetchInit ==
    \E site \in {Github, Gitlab}, token \in BOOLEAN, remote \in Remotes :
        fr = FetchState("start", site, token, remote)

\* src.Site != "github", or auth.GitHubToken() == "": return FetchRefs(src.URL)
FetchStart ==
    /\ fr.pc = "start"
    /\ fr' = [fr EXCEPT !.pc = IF fr.site # Github \/ ~fr.token THEN "lsRemote"
                               ELSE "repoInfo"]

\* repoInfo, err := fetchGitHubRepoInfo(src); on an error FetchRefs(src.URL);
\* an empty default_branch reads as "main"
FetchRepoInfo(ans) ==
    /\ fr.pc = "repoInfo"
    /\ fr' = IF ans = "fail"
                 THEN [fr EXCEPT !.pc = "lsRemote", !.failed = @ \cup {"repoInfo"}]
             ELSE [fr EXCEPT !.pc = "branchInfo",
                             !.defaultBranch = IF ans = "empty" THEN MainName
                                               ELSE fr.remote.default]

\* branchInfo, err := fetchGitHubBranchInfo(src, defaultBranch); if err == nil
\* the HEAD and the default branch are appended
FetchBranchInfo(ok) ==
    /\ fr.pc = "branchInfo"
    /\ fr' = IF ok
                 THEN [fr EXCEPT !.pc = "branches",
                                 !.refs = @ \o
                                     <<Ref("HEAD", HeadName,
                                           BranchCommit(fr.remote, fr.defaultBranch)),
                                       Ref("branch", fr.defaultBranch,
                                           BranchCommit(fr.remote, fr.defaultBranch))>>]
             ELSE [fr EXCEPT !.pc = "branches", !.failed = @ \cup {"branchInfo"}]

\* branches, _ := fetchGitHubBranches(src)
FetchBranches(ok) ==
    /\ fr.pc = "branches"
    /\ fr' = IF ok
                 THEN [fr EXCEPT !.pc = "tags",
                                 !.refs = @ \o SkipNamed(FirstPage(fr.remote.branches),
                                                         fr.defaultBranch)]
             ELSE [fr EXCEPT !.pc = "tags", !.failed = @ \cup {"branches"}]

\* A return that does not test the list
ApiReturnAnyList(refs) == [via |-> "api", err |-> "nil"]

\* What FetchRefsWithToken returns after the API sequence
ApiReturn(refs) ==
    IF refs = <<>> THEN [via |-> "none", err |-> "noRefs"] ELSE [via |-> "api", err |-> "nil"]

\* tags, _ := fetchGitHubTags(src); then the len(refs) == 0 test and return
FetchTags(ok) ==
    /\ fr.pc = "tags"
    /\ \E refs \in {IF ok THEN fr.refs \o FirstPage(fr.remote.tags) ELSE fr.refs} :
       \E r \in {ApiReturn(refs)} :
          fr' = [fr EXCEPT !.pc = "done", !.refs = refs, !.via = r.via, !.err = r.err,
                           !.failed = IF ok THEN @ ELSE @ \cup {"tags"}]

\* FetchRefs(src.URL): git ls-remote and parseGitLsRemoteOutput
FetchLsRemote(ok) ==
    /\ fr.pc = "lsRemote"
    /\ fr' = IF ok THEN [fr EXCEPT !.pc = "done", !.refs = LsRemoteRefs(fr.remote),
                                   !.via = "lsRemote"]
             ELSE [fr EXCEPT !.pc = "done", !.via = "lsRemote", !.err = "lsRemoteFail"]

(***************************************************************************)
(* DownloadTarball: downloadGitHubTarball, then downloadPublic; one action *)
(* per request, the response saved with saveResponse.                      *)
(***************************************************************************)
StatusOK == 200
StatusUnauthorized == 401
StatusForbidden == 403
StatusNotFound == 404

\* The status of the final response; NoResponse when the request itself failed
NoResponse == 0
Statuses == {NoResponse, StatusOK, 204, StatusUnauthorized, StatusForbidden, StatusNotFound, 500}

\* saveResponse: MkdirAll and os.Create, then io.Copy
SaveOutcomes == {"ok", "createFail", "copyFail"}

DlError(kind, status) == [kind |-> kind, status |-> status]
DlNil == DlError("nil", NoResponse)

\* saveResponse(resp, destPath)
saveResponse(save) == IF save = "ok" THEN DlNil ELSE DlError("saveFailed", StatusOK)

\* The file at destPath after saveResponse: os.Create truncates, a failed
\* io.Copy leaves what was written
SavedFile(file, save) ==
    IF save = "ok" THEN "complete" ELSE IF save = "copyFail" THEN "partial" ELSE file

\* A classification that knows one failure only
downloadGitHubTarballUnclassified(status, save) ==
    IF status = NoResponse THEN DlError("requestFailed", status)
    ELSE IF status # StatusOK THEN DlError("downloadFailed", status)
    ELSE saveResponse(save)

\* downloadGitHubTarball: the error by the response's status
downloadGitHubTarball(status, save) ==
    IF status = NoResponse THEN DlError("requestFailed", status)
    ELSE IF status = StatusNotFound THEN DlError("notFound", status)
    ELSE IF status = StatusUnauthorized THEN DlError("unauthorized", status)
    ELSE IF status = StatusForbidden THEN DlError("forbidden", status)
    ELSE IF status # StatusOK THEN DlError("downloadFailed", status)
    ELSE saveResponse(save)

\* downloadPublic: the error by the response's status
downloadPublic(status, save) ==
    IF status = NoResponse THEN DlError("requestFailed", status)
    ELSE IF status # StatusOK THEN DlError("downloadFailed", status)
    ELSE saveResponse(save)

NoAttempt == [status |-> NoResponse, err |-> DlError("notRun", NoResponse)]

\* The error of DownloadTarball when both attempts failed
BothFailedAlwaysCombined(token, apiErr, directErr) ==
    [kind |-> "combined", primary |-> apiErr, secondary |-> directErr]

\* "Return original API error for private repos, direct error for public"
BothFailed(token, apiErr, directErr) ==
    IF token THEN [kind |-> "combined", primary |-> apiErr, secondary |-> directErr]
    ELSE [kind |-> "single", primary |-> directErr, secondary |-> DlNil]

DownloadState(pc, site, token) ==
    [pc |-> pc, site |-> site, token |-> token, api |-> NoAttempt, direct |-> NoAttempt,
     file |-> "absent", log |-> <<>>,
     err |-> [kind |-> "nil", primary |-> DlNil, secondary |-> DlNil]]

DownloadIdle == dl = DownloadState("idle", Github, FALSE)

\* The archive is not in the cache when DownloadTarball is called
DownloadInit ==
    \E site \in {Github, Gitlab}, token \in BOOLEAN :
        dl = DownloadState(IF site = Github THEN "api" ELSE "direct", site, token)

\* err := downloadGitHubTarball(src, hash, destPath, opts); nil returns
DownloadApi(status, save) ==
    /\ dl.pc = "api"
    /\ \E e \in {downloadGitHubTarball(status, save)} :
          dl' = [dl EXCEPT !.pc = IF e = DlNil THEN "done" ELSE "direct",
                           !.api = [status |-> status, err |-> e],
                           !.log = Append(@, "api"),
                           !.file = IF status = StatusOK THEN SavedFile(@, save) ELSE @]

\* directErr := downloadPublic(src.TarballURL(hash), destPath), and the return
DownloadDirect(status, save) ==
    /\ dl.pc = "direct"
    /\ \E e \in {downloadPublic(status, save)} :
          dl' = [dl EXCEPT !.pc = "done",
                           !.direct = [status |-> status, err |-> e],
                           !.log = Append(@, "direct"),
                           !.file = IF status = StatusOK THEN SavedFile(@, save) ELSE @,
                           !.err = IF e = DlNil THEN @
                                   ELSE IF dl.site = Github
                                       THEN BothFailed(dl.token, dl.api.err, e)
                                   ELSE [kind |-> "single", primary |-> e,
                                         secondary |-> DlNil]]

(***************************************************************************)
(* Two processes run UpdateCache on the same cache directory, each for its *)
(* own ref.  A step is one file operation of cache.go: os.ReadFile of      *)
(* map.json, of access.json, os.WriteFile of access.json, of map.json.     *)
(***************************************************************************)
Procs == {1, 2}

\* The ref each process updates
ProcRef(p) == IF p = 1 THEN "main" ELSE "dev"

\* A save that keeps the entries the file holds
SaveRefMapMerging(file, refMap) ==
    Saved([k \in DOMAIN LoadRefMap(file).m \cup DOMAIN refMap |->
              IF k \in DOMAIN refMap THEN refMap[k] ELSE LoadRefMap(file).m[k]])

\* SaveRefMap / SaveAccessLog: os.WriteFile of the marshalled map
SaveRefMap(file, refMap) == Saved(refMap)

Proc(pc, hash) == [pc |-> pc, hash |-> hash, refMap |-> EmptyMap, accessLog |-> EmptyMap]

RaceState(map, access, procs) ==
    [map |-> map, access |-> access, lastMap |-> 0, lastAccess |-> 0, procs |-> procs]

RaceIdle == uc = RaceState(Absent, Absent, [p \in Procs |-> Proc("idle", NoHash)])

\* The cache directory is new, or holds a mapping of a third ref
RaceInit ==
    \E had \in BOOLEAN, h \in [Procs -> {"h1", "h2"}] :
        uc = RaceState(IF had THEN Saved(Put(EmptyMap, "v1", "h1")) ELSE Absent,
                       IF had THEN Saved(Put(EmptyMap, "v1", 0)) ELSE Absent,
                       [p \in Procs |-> Proc("loadMap", h[p])])

\* refMap, err := LoadRefMap(cacheDir)
RaceLoadMap(p) ==
    /\ uc.procs[p].pc = "loadMap"
    /\ uc' = [uc EXCEPT !.procs[p].pc = "loadAccess",
                        !.procs[p].refMap = LoadRefMap(uc.map).m]

\* accessLog, err := LoadAccessLog(cacheDir)
RaceLoadAccess(p) ==
    /\ uc.procs[p].pc = "loadAccess"
    /\ uc' = [uc EXCEPT !.procs[p].pc = "saveAccess",
                        !.procs[p].accessLog = LoadRefMap(uc.access).m]

\* accessLog[ref] = now; SaveAccessLog(cacheDir, accessLog); then the
\* "ref already points to this hash" test
RaceSaveAccess(p) ==
    /\ uc.procs[p].pc = "saveAccess"
    /\ uc' = [uc EXCEPT !.procs[p].pc =
                            IF AlreadyCached(uc.procs[p].refMap, ProcRef(p), uc.procs[p].hash)
                                THEN "done" ELSE "saveMap",
                        !.procs[p].accessLog = Put(@, ProcRef(p), p),
                        !.access = SaveRefMap(@, Put(uc.procs[p].accessLog, ProcRef(p), p)),
                        !.lastAccess = p]

\* refMap[ref] = hash; return SaveRefMap(cacheDir, refMap)
RaceSaveMap(p) ==
    /\ uc.procs[p].pc = "saveMap"
    /\ uc' = [uc EXCEPT !.procs[p].pc = "done",
                        !.procs[p].refMap = Put(@, ProcRef(p), uc.procs[p].hash),
                        !.map = SaveRefMap(@, Put(uc.procs[p].refMap, ProcRef(p),
                                                  uc.procs[p].hash)),
                        !.lastMap = p]

(***************************************************************************)
(* cloneWithTar and DownloadTarball run twice on the same inputs and the   *)
(* same answers of the environment, with Verbose on and with Verbose off.  *)
(* Strings are kept by their lengths: the logging slices them.             *)
(***************************************************************************)
\* token[:20] of "token starts with"
TokenShown == 20
\* hash[:8] of "Resolved %s to %s" and of the offline miss
HashShown == 8

\* s[:n] for a string of length len: out of range when n > len
SliceTo(len, n) == IF n > len THEN "panic" ELSE "ok"

TokenLens == {0, 1, TokenShown - 1, TokenShown, FullHashLen}
HashLens == {1, HashShown - 1, HashShown, FullHashLen}

VerboseRun(pc, out) == [pc |-> pc, out |-> out, downloaded |-> FALSE, extracted |-> FALSE]

VerboseState(site, offline, cached, tokenLen, hashLen, pc) ==
    [site |-> site, offline |-> offline, cached |-> cached, tokenLen |-> tokenLen,
     hashLen |-> hashLen, run |-> [v \in BOOLEAN |-> VerboseRun(pc, "running")]]

VerboseIdle == vb = VerboseState(Github, FALSE, FALSE, 0, FullHashLen, "idle")

\* The ref has been resolved to a commit id of hashLen characters
VerboseInit ==
    \E site \in {Github, Gitlab}, offline \in BOOLEAN, cached \in BOOLEAN,
       tokenLen \in TokenLens, hashLen \in HashLens :
        vb = VerboseState(site, offline, cached, tokenLen, hashLen, "resolved")

\* The run panics: the process ends there
Panicked(r) == [r EXCEPT !.pc = "done", !.out = "panic"]
Returned(r, err) == [r EXCEPT !.pc = "done", !.out = err]

\* if d.options.Verbose { sdk.Info(... hash[:8]) }
LogResolved(r, verbose) ==
    IF verbose /\ SliceTo(vb.hashLen, HashShown) = "panic" THEN Panicked(r)
    ELSE [r EXCEPT !.pc = "lookup"]

\* tarballPath := GetCachedTarball(cacheDir, hash) and the offline miss,
\* whose message is built with hash[:8]
LookupTarball(r, verbose) ==
    IF vb.cached THEN [r EXCEPT !.pc = "extract"]
    ELSE IF vb.offline
        THEN IF SliceTo(vb.hashLen, HashShown) = "panic" THEN Panicked(r)
             ELSE Returned(r, "offlineTarMiss")
    ELSE [r EXCEPT !.pc = "download"]

\* DownloadTarball: for github downloadGitHubTarball with its token log
\* (token[:20] when Verbose), then the direct URL; ok = some attempt saved
\* the archive
DownloadLogged(r, verbose, ok) ==
    IF vb.site = Github /\ vb.tokenLen # 0 /\ verbose
          /\ SliceTo(vb.tokenLen, TokenShown) = "panic"
        THEN Panicked(r)
    ELSE IF ok THEN [r EXCEPT !.pc = "extract", !.downloaded = TRUE]
    ELSE Returned(r, "downloadFail")

\* UpdateCache (a failure is logged at most) and ExtractTarball
ExtractLogged(r, verbose, ok) ==
    IF ok THEN [Returned(r, "nil") EXCEPT !.extracted = TRUE]
    ELSE Returned(r, "extractFail")

\* Both runs take the step they are at, under the same answer
BothRuns(pc, Step2(_, _)) ==
    /\ \E v \in BOOLEAN : vb.run[v].pc = pc
    /\ vb' = [vb EXCEPT !.run = [v \in BOOLEAN |->
                  IF vb.run[v].pc = pc THEN Step2(vb.run[v], v) ELSE vb.run[v]]]

VerboseResolved == BothRuns("resolved", LogResolved)
VerboseLookup == BothRuns("lookup", LookupTarball)
VerboseDownload(ok) ==
    LET Do(r, v) == DownloadLogged(r, v, ok) IN BothRuns("download", Do)
VerboseExtract(ok) ==
    LET Do(r, v) == ExtractLogged(r, v, ok) IN BothRuns("extract", Do)

UnitIdle ==
    ParseIdle /\ AttemptIdle /\ FetchIdle /\ DownloadIdle /\ RaceIdle /\ VerboseIdle

ExtraIdle == RemoveIdle /\ HttpIdle /\ ResolveIdle /\ MoveIdle /\ UnitIdle

(***************************************************************************)
(* Specifications.  Each drives one component and leaves the others idle.  *)
(***************************************************************************)
SpecExtractInit == ExtractInit /\ CacheIdle /\ CloneIdle /\ ExtraIdle
SpecExtractNext ==
    \/ \E outcome \in {"nil", "openErr", "gzipErr"} :
          ExtractOpen(outcome) /\ UNCHANGED <<cacheVars, cloneVars, extraVars>>
    \/ \E h \in Headers, ioOk \in BOOLEAN : ExtractNext(h, ioOk) /\ UNCHANGED <<cacheVars, cloneVars, extraVars>>
    \/ ExtractEOF /\ UNCHANGED <<cacheVars, cloneVars, extraVars>>
    \/ ExtractReadErr /\ UNCHANGED <<cacheVars, cloneVars, extraVars>>
SpecExtract == SpecExtractInit /\ [][SpecExtractNext]_vars

SpecCacheInit == CacheInit /\ ExtractIdle /\ CloneIdle /\ ExtraIdle
SpecCacheNext ==
    \/ \E h \in Hashes : CacheDownload(h) /\ UNCHANGED <<extractVars, cloneVars, extraVars>>
    \/ \E ref \in Refs, h \in Hashes, now \in 0..MaxClock,
          io \in {"ok", "accessFail", "mapFail", "mapReadFail", "accessReadFail"} :
          CacheUpdate(ref, h, now, io) /\ UNCHANGED <<extractVars, cloneVars, extraVars>>
SpecCache == SpecCacheInit /\ [][SpecCacheNext]_vars

SpecRemoveInit ==
    RemoveInit /\ CacheIdle /\ CloneIdle /\ HttpIdle /\ ResolveIdle /\ MoveIdle /\ UnitIdle
SpecRemoveNext ==
    \/ \E ioOk \in BOOLEAN : RemoveNext(ioOk) /\ UNCHANGED <<cacheVars, cloneVars, http, rr, mv, unitVars>>
    \/ RemoveReturn /\ UNCHANGED <<cacheVars, cloneVars, http, rr, mv, unitVars>>
SpecRemove == SpecRemoveInit /\ [][SpecRemoveNext]_vars

SpecHttpInit ==
    HttpInit /\ RemoveIdle /\ ResolveIdle /\ ExtractIdle /\ CacheIdle /\ CloneIdle /\ MoveIdle
    /\ UnitIdle
SpecHttpNext ==
    \/ \E target \in Hosts : HttpRedirect(target) /\ UNCHANGED <<extractVars, cacheVars, cloneVars, mv, unitVars>>
    \/ HttpRespond /\ UNCHANGED <<extractVars, cacheVars, cloneVars, mv, unitVars>>
SpecHttp == SpecHttpInit /\ [][SpecHttpNext]_vars

SpecResolveInit ==
    ResolveInit /\ RemoveIdle /\ HttpIdle /\ ExtractIdle /\ CacheIdle /\ CloneIdle /\ MoveIdle
    /\ UnitIdle
SpecResolveNext == ResolveCall /\ UNCHANGED <<extractVars, cacheVars, cloneVars, mv, unitVars>>
SpecResolve == SpecResolveInit /\ [][SpecResolveNext]_vars

SpecMoveInit ==
    MoveInit /\ ExtractIdle /\ CacheIdle /\ CloneIdle /\ RemoveIdle /\ HttpIdle /\ ResolveIdle
    /\ UnitIdle
SpecMoveNext ==
    \/ \E ok \in BOOLEAN : MoveBegin(ok) /\ UNCHANGED <<extractVars, cacheVars, cloneVars, removeVars, http, rr, unitVars>>
    \/ \E n \in MoveChildren, ok \in BOOLEAN :
          MoveOutOne(n, ok) /\ UNCHANGED <<extractVars, cacheVars, cloneVars, removeVars, http, rr, unitVars>>
    \/ \E ok \in BOOLEAN : MoveOutDone(ok) /\ UNCHANGED <<extractVars, cacheVars, cloneVars, removeVars, http, rr, unitVars>>
    \/ \E n \in UNION MoveRoots, ok \in BOOLEAN :
          ClearOne(n, ok) /\ UNCHANGED <<extractVars, cacheVars, cloneVars, removeVars, http, rr, unitVars>>
    \/ \E ok \in BOOLEAN : ClearDone(ok) /\ UNCHANGED <<extractVars, cacheVars, cloneVars, removeVars, http, rr, unitVars>>
    \/ \E n \in MoveChildren, ok \in BOOLEAN :
          MoveInOne(n, ok) /\ UNCHANGED <<extractVars, cacheVars, cloneVars, removeVars, http, rr, unitVars>>
    \/ MoveInDone /\ UNCHANGED <<extractVars, cacheVars, cloneVars, removeVars, http, rr, unitVars>>
SpecMove == SpecMoveInit /\ [][SpecMoveNext]_vars

othersVars == <<extractVars, cacheVars, cloneVars, removeVars, http, rr, mv, vb>>
OthersIdle ==
    ExtractIdle /\ CacheIdle /\ CloneIdle /\ RemoveIdle /\ HttpIdle /\ ResolveIdle /\ MoveIdle
    /\ VerboseIdle

SpecParseInit ==
    ParseInit /\ ExtractIdle /\ CacheIdle /\ CloneIdle /\ RemoveIdle /\ HttpIdle /\ ResolveIdle
    /\ MoveIdle /\ AttemptIdle /\ FetchIdle /\ DownloadIdle /\ RaceIdle /\ VerboseIdle
SpecParseNext ==
    \E form \in Forms :
        ParseForm(form)
            /\ UNCHANGED <<othersVars, ga, fr, dl, uc>>
SpecParse == SpecParseInit /\ [][SpecParseNext]_vars

SpecAttemptInit ==
    AttemptInit /\ OthersIdle /\ ParseIdle /\ FetchIdle /\ DownloadIdle /\ RaceIdle
SpecAttemptNext ==
    \/ \E found \in BOOLEAN : AttemptLookPath(found) /\ UNCHANGED <<othersVars, ps, fr, dl, uc>>
    \/ \E cause \in CloneCauses \cup {"nil"}, left \in Leftovers \cup {{"old"}} :
          AttemptHttps(cause, left) /\ UNCHANGED <<othersVars, ps, fr, dl, uc>>
    \/ \E ioOk \in BOOLEAN : AttemptClear(ioOk) /\ UNCHANGED <<othersVars, ps, fr, dl, uc>>
    \/ \E cause \in CloneCauses \cup {"nil"}, left \in Leftovers \cup {{"old"}} :
          AttemptSsh(cause, left) /\ UNCHANGED <<othersVars, ps, fr, dl, uc>>
SpecAttempt == SpecAttemptInit /\ [][SpecAttemptNext]_vars

SpecFetchInit ==
    FetchInit /\ OthersIdle /\ ParseIdle /\ AttemptIdle /\ DownloadIdle /\ RaceIdle
SpecFetchNext ==
    \/ FetchStart /\ UNCHANGED <<othersVars, ps, ga, dl, uc>>
    \/ \E ans \in {"fail", "empty", "ok"} : FetchRepoInfo(ans) /\ UNCHANGED <<othersVars, ps, ga, dl, uc>>
    \/ \E ok \in BOOLEAN : FetchBranchInfo(ok) /\ UNCHANGED <<othersVars, ps, ga, dl, uc>>
    \/ \E ok \in BOOLEAN : FetchBranches(ok) /\ UNCHANGED <<othersVars, ps, ga, dl, uc>>
    \/ \E ok \in BOOLEAN : FetchTags(ok) /\ UNCHANGED <<othersVars, ps, ga, dl, uc>>
    \/ \E ok \in BOOLEAN : FetchLsRemote(ok) /\ UNCHANGED <<othersVars, ps, ga, dl, uc>>
SpecFetch == SpecFetchInit /\ [][SpecFetchNext]_vars

SpecDownloadInit ==
    DownloadInit /\ OthersIdle /\ ParseIdle /\ AttemptIdle /\ FetchIdle /\ RaceIdle
SpecDownloadNext ==
    \/ \E status \in Statuses, save \in SaveOutcomes :
          DownloadApi(status, save) /\ UNCHANGED <<othersVars, ps, ga, fr, uc>>
    \/ \E status \in Statuses, save \in SaveOutcomes :
          DownloadDirect(status, save) /\ UNCHANGED <<othersVars, ps, ga, fr, uc>>
SpecDownload == SpecDownloadInit /\ [][SpecDownloadNext]_vars

SpecRaceInit ==
    RaceInit /\ OthersIdle /\ ParseIdle /\ AttemptIdle /\ FetchIdle /\ DownloadIdle
SpecRaceNext ==
    \/ \E p \in Procs : RaceLoadMap(p) /\ UNCHANGED <<othersVars, ps, ga, fr, dl>>
    \/ \E p \in Procs : RaceLoadAccess(p) /\ UNCHANGED <<othersVars, ps, ga, fr, dl>>
    \/ \E p \in Procs : RaceSaveAccess(p) /\ UNCHANGED <<othersVars, ps, ga, fr, dl>>
    \/ \E p \in Procs : RaceSaveMap(p) /\ UNCHANGED <<othersVars, ps, ga, fr, dl>>
SpecRace == SpecRaceInit /\ [][SpecRaceNext]_vars

restVars == <<extractVars, cacheVars, cloneVars, removeVars, http, rr, mv, ps, ga, fr, dl, uc>>
SpecVerboseInit ==
    /\ VerboseInit
    /\ ExtractIdle /\ CacheIdle /\ CloneIdle /\ RemoveIdle /\ HttpIdle /\ ResolveIdle /\ MoveIdle
    /\ ParseIdle /\ AttemptIdle /\ FetchIdle /\ DownloadIdle /\ RaceIdle
SpecVerboseNext ==
    \/ VerboseResolved /\ UNCHANGED restVars
    \/ VerboseLookup /\ UNCHANGED restVars
    \/ \E ok \in BOOLEAN : VerboseDownload(ok) /\ UNCHANGED restVars
    \/ \E ok \in BOOLEAN : VerboseExtract(ok) /\ UNCHANGED restVars
SpecVerbose == SpecVerboseInit /\ [][SpecVerboseNext]_vars

Init == CloneInit /\ ExtractIdle /\ CacheIdle /\ ExtraIdle
Next ==
    \/ CloneCheck /\ UNCHANGED <<extractVars, cacheVars, extraVars>>
    \/ \E e \in TarEnvs : CloneTar(e) /\ UNCHANGED <<extractVars, cacheVars, extraVars>>
    \/ CloneFallback /\ UNCHANGED <<extractVars, cacheVars, extraVars>>
    \/ \E e \in GitEnvs : CloneGit(e) /\ UNCHANGED <<extractVars, cacheVars, extraVars>>
    \/ CloneLoad /\ UNCHANGED <<extractVars, cacheVars, extraVars>>
    \/ \E ioOk \in BOOLEAN : ExecRemove(ioOk) /\ UNCHANGED <<extractVars, cacheVars, extraVars>>
    \/ ExecClone /\ UNCHANGED <<extractVars, cacheVars, extraVars>>
    \/ ExecCloneReturned /\ UNCHANGED <<extractVars, cacheVars, extraVars>>
    \/ ExecOther /\ UNCHANGED <<extractVars, cacheVars, extraVars>>
    \/ ExecDone /\ UNCHANGED <<extractVars, cacheVars, extraVars>>
Spec == Init /\ [][Next]_vars

\* An online Clone followed, when it succeeded through the tar path, by an
\* offline Clone of the same source.  The remote ref may have moved to h2
\* since the cache was filled, and every git step can fail.
SessionWorlds ==
    { [A |-> NoFile, B |-> NoFile],
      [A |-> Parsed(<<RemoveAct(<<"fa", "gone">>), CloneAct("B", TRUE), OtherAct>>),
       B |-> NoFile] }

SessionTarEnvs ==
    TarEnvs \cup { [e EXCEPT !.resolve = "h2"] : e \in {t \in TarEnvs : t.fetch = "ok"} }

SessionGitEnvs == GitEnvs \cup GitStepEnvs

SessionInit ==
    /\ manifests \in SessionWorlds
    /\ dest \in {NoDir, EmptyDir}
    /\ events = {}
    /\ nextId = 1
    /\ loadLog = <<>>
    /\ ret = NoRet
    /\ prev = NoPrev
    /\ \E src \in {Src("A", "v1", ""), Src("A", "v1", "s")} :
          /\ \E c \in InitCaches(src.ref) :
                repoCache = [NoCaches EXCEPT ![src.repo] = c]
          /\ \E mode \in {"tar", "git"} :
                stack = <<NewFrame(src, Opts(FALSE, FALSE, mode),
                                   [dest |-> dest, cache |-> repoCache, events |-> {}])>>

SpecSessionInit == SessionInit /\ ExtractIdle /\ CacheIdle /\ ExtraIdle
SpecSessionNext ==
    \/ CloneCheck /\ UNCHANGED <<extractVars, cacheVars, extraVars>>
    \/ \E e \in SessionTarEnvs : CloneTar(e) /\ UNCHANGED <<extractVars, cacheVars, extraVars>>
    \/ CloneFallback /\ UNCHANGED <<extractVars, cacheVars, extraVars>>
    \/ \E e \in SessionGitEnvs : CloneGit(e) /\ UNCHANGED <<extractVars, cacheVars, extraVars>>
    \/ CloneLoad /\ UNCHANGED <<extractVars, cacheVars, extraVars>>
    \/ \E ioOk \in BOOLEAN : ExecRemove(ioOk) /\ UNCHANGED <<extractVars, cacheVars, extraVars>>
    \/ ExecClone /\ UNCHANGED <<extractVars, cacheVars, extraVars>>
    \/ ExecCloneReturned /\ UNCHANGED <<extractVars, cacheVars, extraVars>>
    \/ ExecOther /\ UNCHANGED <<extractVars, cacheVars, extraVars>>
    \/ ExecDone /\ UNCHANGED <<extractVars, cacheVars, extraVars>>
    \/ \E d \in {NoDir, EmptyDir} : CloneAgain(d) /\ UNCHANGED <<extractVars, cacheVars, extraVars>>
SpecSession == SpecSessionInit /\ [][SpecSessionNext]_vars

(***************************************************************************)
(* Properties of ExtractTarball (SpecExtract)                              *)
(***************************************************************************)
\* p is destDir or nested under it
IsUnder(p, dir) == p = dir \/ HasPrefix(p, dir \o <<Sep>>)

\* Where the loop body would place header h
EntryDestPath(h) == FilepathJoin(<<xDest, stripPath(h.Name, StripLevel(xOpts))>>)

\* Header i was not filtered out or stripped away: it reached the traversal check
ReachedCheck(i) == xLog[i] \notin {"filtered", "stripped"}

\* The objects that exist only because of this call
Extracted == {o \in xFs : o.path \notin PathPrefixes(xDest)}

\* C1: ExtractTarball never creates a file, directory or symlink whose
\* cleaned path lies outside destDir, and every entry whose destination is
\* not destDir or nested under it aborts the extraction with the
\* path-traversal error (a sibling such as /t/oa for destDir /t/o included).
C1_NothingOutsideDest ==
    /\ \A o \in Extracted : IsUnder(o.path, xDest)
    /\ \A i \in 1..Len(xRead) :
          (ReachedCheck(i) /\ ~IsUnder(EntryDestPath(xRead[i]), xDest))
              => xLog[i] = "traversal"

\* C2 as stated: a rejected archive has left no extracted file behind.
C2_RejectedExtractsNothing ==
    xErr = "traversal" => \A o \in Extracted : o.kind # "file"

\* C2 amended: when an entry is rejected as path traversal, nothing is
\* written for that entry (nor for a later one: the loop has returned);
\* every object the call created comes from an entry read before it.
C2_RejectedWritesOnlyEarlier ==
    xErr = "traversal" =>
        /\ xPc = "returned"
        /\ xLog[Len(xRead)] = "traversal"
        /\ \A o \in Extracted :
              \E i \in 1..(Len(xRead) - 1) :
                  /\ xLog[i] \in {"dir", "file", "link", "ioerr"}
                  /\ o.path \in PathPrefixes(EntryDestPath(xRead[i]))

C2_Witness ==
    /\ xErr = "traversal"
    /\ Len(xRead) >= 2
    /\ \E o \in Extracted : o.kind = "file"

(***************************************************************************)
(* Properties of UpdateCache (SpecCache)                                   *)
(***************************************************************************)
\* The map.json content as a later call would load it
CurrentMap == LoadRefMap(mapFile).m

\* The last step was a successful UpdateCache(ref, h2) with ref mapped to
\* h1 # h2 before it
Repointed(h1) ==
    /\ lastUpdate.called
    /\ lastUpdate.err = "nil"
    /\ h1 # NoHash
    /\ h1 = Lookup(lastUpdate.preMap, lastUpdate.ref)
    /\ h1 # lastUpdate.hash

OtherRefMaps(h1) ==
    \E r \in DOMAIN lastUpdate.preMap : r # lastUpdate.ref /\ lastUpdate.preMap[r] = h1

\* C3: after UpdateCache(ref, h2) where ref mapped to h1 and no other ref
\* maps to h1, the archive h1.tar.gz no longer exists.
C3_OrphanArchiveDeleted ==
    \A h1 \in Hashes : (Repointed(h1) /\ ~OtherRefMaps(h1)) => h1 \notin tarballs

\* C4: an update never deletes an archive whose commit id is the value of
\* some ref in the map after the update; in particular h1.tar.gz is kept
\* when ref moves from h1 to h2 while another ref still maps to h1.
C4_ReferencedArchiveRetained ==
    lastUpdate.called =>
        /\ \A h \in lastUpdate.preTars \ tarballs :
              \A r \in DOMAIN CurrentMap : CurrentMap[r] # h
        /\ \A h1 \in lastUpdate.preTars :
              (Repointed(h1) /\ OtherRefMaps(h1)) => h1 \in tarballs

C4_Witness ==
    \E h1 \in Hashes :
        /\ Repointed(h1)
        /\ OtherRefMaps(h1)
        /\ h1 \in lastUpdate.preTars
        /\ h1 \in tarballs
        /\ Lookup(CurrentMap, lastUpdate.ref) = lastUpdate.hash

(***************************************************************************)
(* Properties of Degit.Clone (Spec)                                        *)
(***************************************************************************)
\* The Clone calls in progress
Frames == {stack[i] : i \in 1..Len(stack)}

\* The tar attempt of call c has run and failed
TarFailed(c) == c.opts.Mode = "tar" /\ c.tarErr \notin {"notRun", "nil"}

\* C5: in offline mode a failed tar attempt never triggers the git
\* fallback: the call returns the tar failure, the destination is not
\* cleared and git is not invoked.
C5_OfflineNeverFallsBack ==
    /\ \A f \in Frames : ~(f.opts.Cache /\ TarFailed(f))
    /\ (ret.done /\ ret.opts.Cache /\ TarFailed(ret)) =>
          ret.err = Plain(ret.tarErr) /\ ret.gitErr = "notRun"

CacheSeeded(c) ==
    LET cd == c.pre.cache[c.src.repo]
        h == GetCachedHash(cd.map, c.src.ref)
    IN  h # NoHash /\ GetCachedTarball(cd.tars, h)

OfflineSeeded(c) == c.opts.Cache /\ c.opts.Mode = "tar" /\ CacheSeeded(c)

\* C7: offline, with the mapping and the archive cached, Clone
\* succeeds with the extracted tree and no fetch, download or git call.
C7_OfflineSeededAlwaysSucceeds ==
    (ret.done /\ OfflineSeeded(ret) /\ ret.err.kind # "destNotEmpty") =>
        /\ ret.err = Nil
        /\ events = ret.pre.events
        /\ TreeOf(ret.src.repo, ret.src.subdir) \subseteq dest.files

\* The part of C7 that the tar path itself satisfies: offline, with the
\* mapping and the archive cached, the tar attempt makes no fetch, download
\* or git call and can fail only at extraction; when it succeeds and no
\* manifest action follows, Clone succeeds with the extracted tree.
C7_OfflineSeededTarAttempt ==
    /\ \A c \in Frames \cup {ret} :
          (OfflineSeeded(c) /\ c.tarErr # "notRun") =>
              c.tarEvents = {} /\ c.tarErr \in {"nil", "extractFail"}
    /\ (ret.done /\ OfflineSeeded(ret) /\ ret.tarErr = "nil" /\ ret.nactions = 0) =>
          /\ ret.err = Nil
          /\ events = ret.pre.events
          /\ TreeOf(ret.src.repo, ret.src.subdir) \subseteq dest.files

\* C8: online, a failed tar attempt leads to the destination being cleared
\* and then the git attempt; Clone succeeds only if that attempt (and the
\* actions after it) succeed, and when both attempts fail the error names
\* the tar failure and the git failure.
C8_OnlineTarFailureFallsBack ==
    /\ \A f \in Frames :
          (~f.opts.Cache /\ TarFailed(f)) =>
              /\ f.pc \in {"fallback", "git", "load", "exec", "wait"}
              /\ f.pc = "git" => dest = NoDir
              /\ f.pc \in {"load", "exec", "wait"} => f.gitErr = "nil"
    /\ (ret.done /\ ~ret.opts.Cache /\ TarFailed(ret)) =>
          /\ ret.gitErr # "notRun"
          /\ ret.gitErr # "nil" =>
                /\ ret.err.kind = "tarAndGitFailed"
                /\ {ret.tarErr, ret.gitErr} \subseteq ret.err.names
          /\ ret.gitErr = "nil" => ret.err.kind \in {"nil", "actionFailed"}
          /\ ret.err = Nil => ret.gitErr = "nil"

C8_Witness ==
    /\ ret.done
    /\ ~ret.opts.Cache
    /\ ret.tarErr = "extractFail"
    /\ ret.gitErr = "cloneFailed"
    /\ ret.err.kind = "tarAndGitFailed"

\* C9: after a successful clone action every file that was in the
\* destination when the action started and that the nested source does not
\* contain is still there.
C9_CloneActionMerges ==
    (ret.done /\ ret.depth > 1 /\ ret.err = Nil) =>
        (ret.pre.dest.files \ TreeOf(ret.src.repo, ret.src.subdir)) \subseteq dest.files

\* C10: a degit.json that LoadActions has parsed is gone from the
\* destination before its first action runs and is never parsed again,
\* nested clone actions included.
C10_ManifestConsumedOnce ==
    /\ \A i \in 1..Len(loadLog) : dest.manifest.id # loadLog[i]
    /\ \A i, j \in 1..Len(loadLog) : i # j => loadLog[i] # loadLog[j]
    /\ \A f \in Frames :
          f.pc \in {"exec", "wait"} => f.loadedId # 0 /\ dest.manifest.id # f.loadedId

C10_Witness ==
    /\ Len(loadLog) >= 2
    /\ Len(stack) >= 2
    /\ Top.pc = "exec"
    /\ Top.ai = 1
    /\ Top.loadedId = loadLog[Len(loadLog)]
    /\ dest.manifest = NoManifest

\* C11: the actions of a manifest are started in list order, one at a time;
\* after the first failing action no later one is started, and Clone's
\* error carries that action's index and kind.
C11_ActionsInOrderStopAtFirstFailure ==
    /\ \A c \in Frames \cup {ret} :
          \A i \in 1..Len(c.started) : c.started[i].idx = i - 1
    /\ \A f \in Frames :
          \A i \in 1..Len(f.started) : f.started[i].kind = f.actions[i].action
    /\ \A i \in 1..(Len(stack) - 1) :
          /\ stack[i].pc = "wait"
          /\ stack[i].started # <<>>
          /\ stack[i].started[Len(stack[i].started)].kind = "clone"
    /\ (ret.done /\ ret.err.kind = "actionFailed") =>
          /\ ret.started # <<>>
          /\ LET last == ret.started[Len(ret.started)]
             IN  ret.err.idx = last.idx /\ last.kind \in ret.err.names
    /\ (ret.done /\ ret.err = Nil) => Len(ret.started) = ret.nactions

C11_Witness ==
    /\ ret.done
    /\ ret.err.kind = "actionFailed"
    /\ ret.err.idx = 2
    /\ Len(ret.started) = 3
    /\ ret.nactions = 4

\* The degit.json at the destination root: "none", "bad" or "ok"
ManifestAtDest ==
    IF dest.manifest = NoManifest THEN "none" ELSE manifests[dest.manifest.repo].state

\* C12: when Clone comes to load a degit.json that cannot be parsed, or
\* finds none, it returns success at once: no action is started and the
\* destination stays as the tar or git attempt left it.
C12_UnparsableManifestSwallowed ==
    [][(Running("load") /\ ManifestAtDest \in {"none", "bad"}) =>
          /\ Len(stack') = Len(stack) - 1
          /\ ret'.done
          /\ ret'.err = Nil
          /\ ret'.started = <<>>
          /\ dest' = dest]_vars

C12_Witness ==
    /\ ret.done
    /\ ret.err = Nil
    /\ ret.started = <<>>
    /\ ManifestAtDest = "bad"
    /\ FullTree("A") \subseteq dest.files

(***************************************************************************)
(* Properties of executeRemoveAction (SpecRemove)                          *)
(***************************************************************************)
\* The cleaned absolute path that listed path i names
ListedTarget(i) == Clean(FilepathJoin(<<xDest, rFiles[i]>>))

TrustedGitHubHosts ==
    {"api.github.com", "github.com", "codeload.github.com", "objects.githubusercontent.com"}

\* C14: no request the engine has sent, first or redirected, in the archive
\* download or in the API reference fetch, carries the Authorization header
\* to a host outside the trusted GitHub domain set.
C14_NoTokenOutsideTrustedHosts ==
    \A r \in http.sent : r.auth => r.host \in TrustedGitHubHosts

\* The part of C14 that downloadGitHubTarball satisfies
C14_DownloadKeepsTokenInside ==
    http.client = "download" => \A r \in http.sent : r.auth => r.host \in TrustedGitHubHosts

(***************************************************************************)
(* Properties of ResolveRef (SpecResolve)                                  *)
(***************************************************************************)
NamesHead == rr.name = <<>> \/ rr.name = HeadName
HasBranch(n) == \E i \in 1..Len(rr.refs) : rr.refs[i].Type = "branch" /\ rr.refs[i].Name = n
HasTag(n) == \E i \in 1..Len(rr.refs) : rr.refs[i].Type = "tag" /\ rr.refs[i].Name = n
\* The positions of the references whose commit id starts with the name
PrefixHits == {i \in 1..Len(rr.refs) : HasPrefix(rr.refs[i].Hash, rr.name)}

\* C15: with an empty reference list ResolveRef never returns a commit id.
C15_EmptyRefsNeverResolve ==
    (rr.done /\ rr.refs = <<>>) =>
        rr.err = (IF NamesHead THEN "noHead" ELSE "unresolved")

\* C15 amended: with an empty reference list ResolveRef fails (missing HEAD
\* for "" and "HEAD", unresolved otherwise) unless the name is exactly 40
\* hexadecimal characters, which it returns verbatim.
C15_EmptyRefsOnlyFullHash ==
    (rr.done /\ rr.refs = <<>>) =>
        IF NamesHead THEN rr.err = "noHead"
        ELSE IF rr.name \in {HashA, Rep("d", 40)}
            THEN rr.err = "nil" /\ rr.hash = rr.name
        ELSE rr.err = "unresolved"

C15_Witness ==
    /\ rr.done
    /\ rr.refs = <<>>
    /\ rr.name = Rep("d", 40)
    /\ rr.err = "nil"
    /\ rr.hash = Rep("d", 40)

\* The commit id of the first reference of the given type named rr.name
FirstHashOf(type) ==
    LET hits == {i \in 1..Len(rr.refs) :
                    rr.refs[i].Type = type /\ rr.refs[i].Name = rr.name}
    IN  rr.refs[CHOOSE i \in hits : \A j \in hits : i <= j].Hash

\* C16: a name equal to a branch name resolves to that branch's commit,
\* whatever tag has the same name and whatever commit id it is a prefix of;
\* a name equal to a tag name and to no branch name resolves to the tag's
\* commit, whatever commit id it is a prefix of.
C16_BranchThenTagThenPrefix ==
    (rr.done /\ ~NamesHead) =>
        /\ HasBranch(rr.name) => rr.err = "nil" /\ rr.hash = FirstHashOf("branch")
        /\ (~HasBranch(rr.name) /\ HasTag(rr.name)) =>
              rr.err = "nil" /\ rr.hash = FirstHashOf("tag")

C16_Witness ==
    /\ rr.done
    /\ rr.name = Rep("c", 8)
    /\ rr.refs = <<Ref("tag", <<"v", "1">>, HashC), Ref("branch", Rep("c", 8), HashAB)>>
    /\ rr.hash = HashAB

SecondCalls ==
    IF ~prev.done THEN {}
    ELSE IF stack # <<>> THEN {stack[1]}
    ELSE IF ret.done /\ ret.depth = 1 THEN {ret}
    ELSE {}

\* C18: after an online tar-mode Clone that succeeded through the tar path
\* with a successful cache update, an offline Clone of the same source and
\* ref into an empty destination finds the mapping and the archive in the
\* cache: its tar attempt uses the archive the first call extracted, makes
\* no fetch, download or git call and can fail only if the extraction itself
\* fails; when it extracts and no manifest action follows, Clone succeeds
\* with the tree, and otherwise Clone fails only through an action.
C18_OfflineAfterOnlineUsesCache ==
    \A c \in SecondCalls :
        prev.cacheErr = "nil" =>
            /\ c.tarErr # "notRun" =>
                  /\ c.hash = prev.hash
                  /\ c.tarEvents = {}
                  /\ c.tarErr \in {"nil", "extractFail"}
            /\ (c = ret /\ ret.tarErr = "nil") =>
                  /\ ret.gitErr = "notRun"
                  /\ ret.err.kind \in {"nil", "actionFailed"}
                  /\ ret.nactions = 0 =>
                        /\ ret.err = Nil
                        /\ TreeOf(ret.src.repo, ret.src.subdir) \subseteq dest.files

C18_Witness ==
    /\ prev.done
    /\ prev.cacheErr = "nil"
    /\ prev.hash = "h2"
    /\ stack = <<>>
    /\ ret.done /\ ret.depth = 1
    /\ ret.opts.Cache
    /\ ret.hash = "h2"
    /\ ret.err = Nil
    /\ ret.pre.dest = EmptyDir
    /\ TreeOf(ret.src.repo, ret.src.subdir) \subseteq dest.files

\* Every step of cloneWithTar other than UpdateCache succeeds under e
TarStepsOk(e) ==
    /\ ~Top.opts.Cache
    /\ e.fetch = "ok" /\ e.resolve # "fail"
    /\ e.download = "ok"
    /\ e.extract = "ok"
    /\ e.resolve \notin repoCache[Top.src.repo].bad

\* Every step of cloneWithGit other than the checkout (with its follow-up
\* fetch) and the removal of .git succeeds under e
GitStepsOk(e) ==
    /\ e.lookPath
    /\ (e.https /\ ~HasEntries(dest)) \/ e.ssh
    /\ Top.src.subdir # "" => e.temp /\ HasSubdir(Top.src.repo)

\* C19: a failed cache update, a failed removal of .git and a failed
\* checkout (also when the follow-up fetch fails) are swallowed: when every
\* other step of the tar attempt (of the git attempt) succeeds, the attempt
\* succeeds whatever those steps did, and a Clone whose attempt succeeded
\* fails only through an action of the manifest.
C19_SwallowedFailuresNeverFail ==
    [][ /\ \A e \in SessionTarEnvs :
              (CloneTar(e) /\ TarStepsOk(e)) =>
                  /\ Len(stack') = Len(stack)
                  /\ stack'[Len(stack)].tarErr = "nil"
                  /\ stack'[Len(stack)].pc = "load"
        /\ \A e \in SessionGitEnvs :
              (CloneGit(e) /\ GitStepsOk(e)) =>
                  /\ Len(stack') = Len(stack)
                  /\ stack'[Len(stack)].gitErr = "nil"
                  /\ stack'[Len(stack)].pc = "load"
        /\ (ret'.done /\ (ret'.gitErr = "nil" \/
                           (ret'.tarErr = "nil" /\ ret'.gitErr = "notRun"))) =>
              /\ ret'.err.kind \in {"nil", "actionFailed"}
              /\ ret'.nactions = 0 => ret'.err = Nil
      ]_vars

C19_Witness ==
    /\ prev.done
    /\ prev.cacheErr = "saveErr"
    /\ stack = <<>>
    /\ ret.done /\ ret.depth = 1
    /\ ret.gitFailed = {"checkout", "fetchRef", "rmGit"}
    /\ ".git" \in dest.files
    /\ ret.err = Nil

\* C20: at every point of the subdirectory move the destination does not
\* hold both an entry of the full clone and an entry moved in from the
\* temporary directory.
C20_NoMixDuringMove == ~(mv.full # {} /\ mv.moved # {})

\* What the move guarantees: the two kinds of entry meet only after a
\* removal (or the listing for it) failed and the failure was dropped.
C20_NoMixUnlessRemovalFailed == (mv.full # {} /\ mv.moved # {}) => mv.ignored

\* C21: the forms user/repo, github:user/repo, https://github.com/user/repo
\* and git@github.com:user/repo of one repository, subdirectory and ref
\* parse to the same descriptor: the site without its domain suffix, the
\* owner, the repo without ".git", the ref or "HEAD", the subdirectory and
\* the HTTPS and SSH URLs of the site's domain
C21_FormsParseAlike ==
    \A f \in Forms :
        ps.out[f] # NotParsed =>
            /\ ps.out[f].err = "nil"
            /\ ps.out[f].site = ps.host
            /\ ps.out[f].owner = ps.owner
            /\ ps.out[f].repo = ps.repo
            /\ ps.out[f].ref = (IF ps.ref = <<>> THEN HeadRef ELSE ps.ref)
            /\ ps.out[f].subdir = ps.subdir
            /\ ps.out[f].url = HttpsScheme \o getDomain(ps.host) \o <<Sep>>
                                   \o ps.owner \o <<Sep>> \o ps.repo
            /\ ps.out[f].ssh = GitAt \o getDomain(ps.host) \o <<":">>
                                   \o ps.owner \o <<Sep>> \o ps.repo
            /\ \A g \in Forms : ps.out[g] # NotParsed => ps.out[g] = ps.out[f]

\* All four forms of a GitHub repository written with ".git", a nested
\* subdirectory and no ref have been parsed
C21_Witness ==
    /\ ps.host = Github /\ ps.suffix /\ ps.ref = <<>> /\ Len(ps.subdir) = 4
    /\ \A f \in Forms : ps.out[f] # NotParsed /\ ps.out[f].ref = HeadRef

\* The positions of a call in the log of the clone attempts
LogAt(op) == {i \in DOMAIN ga.log : ga.log[i] = op}

\* C22: the SSH clone runs only after the HTTPS clone failed and after
\* os.RemoveAll(dest) was called in between; the attempt fails with the
\* combined error, naming the HTTPS and the SSH cause, exactly when both
\* clones failed; and with git not on the path it fails before any clone
C22_HttpsThenSsh ==
    /\ \A i \in LogAt("cloneSsh") :
          /\ ga.httpsErr # "nil"
          /\ \E h \in LogAt("cloneHttps"), c \in LogAt("removeAll") : h < c /\ c < i
    /\ ga.err.kind = "cloneFailed" <=>
          /\ ga.pc = "failed" /\ LogAt("cloneHttps") # {} /\ LogAt("cloneSsh") # {}
          /\ ga.httpsErr # "nil"
    /\ ga.err.kind = "cloneFailed" =>
          ga.err.https = ga.httpsErr /\ ga.err.https \in CloneCauses /\ ga.err.ssh \in CloneCauses
    /\ ga.pc = "checkout" => ga.err = NoAttemptError /\ ga.dest = {".git", "tree"}
    /\ ga.err.kind = "gitNotFound" <=> ga.pc = "failed" /\ ga.log = <<"lookPath">>
    /\ (ga.pc = "checkout" /\ ga.httpsErr = "nil") => LogAt("cloneSsh") = {}

\* Both clones failed with different causes, and the SSH clone succeeded
\* after a failed HTTPS clone (two states; each is reached)
C22_Witness ==
    /\ ga.log = <<"lookPath", "cloneHttps", "removeAll", "cloneSsh">>
    /\ ga.err = [kind |-> "cloneFailed", https |-> "exit128", ssh |-> "exit1"]

C22_SshRescues ==
    /\ ga.log = <<"lookPath", "cloneHttps", "removeAll", "cloneSsh">>
    /\ ga.pc = "checkout"

\* The calls whose tar attempt ran online
OnlineTarCalls ==
    {c \in Frames \cup (IF ret.done THEN {ret} ELSE {}) :
        c.opts.Mode = "tar" /\ ~c.opts.Cache /\ c.tarErr # "notRun"}

\* The commit id the cache held for the call's ref when the call began
CachedBefore(c) == GetCachedHash(c.pre.cache[c.src.repo].map, c.src.ref)

\* C23: online, when fetching the refs fails and the cache maps the ref to
\* a commit id, cloneWithTar goes on with that id: it looks for the cached
\* archive, downloads it when missing and extracts; the attempt fails at
\* the fetch step exactly when the fetch failed and no mapping is cached
C23_FetchFailureUsesCachedHash ==
    \A c \in OnlineTarCalls :
        /\ (c.fetch = "fail" /\ CachedBefore(c) # NoHash) =>
              /\ c.tarErr \in {"nil", "downloadFail", "extractFail"}
              /\ c.tarErr \in {"nil", "extractFail"} => c.hash = CachedBefore(c)
              /\ "download" \in c.tarEvents <=>
                    ~GetCachedTarball(c.pre.cache[c.src.repo].tars, CachedBefore(c))
        /\ c.tarErr = "fetchFail" <=> (c.fetch = "fail" /\ CachedBefore(c) = NoHash)

\* The fetch failed, the cache held the mapping but not the archive, and
\* the attempt downloaded it and succeeded
C23_Witness ==
    \E c \in OnlineTarCalls :
        /\ c.fetch = "fail" /\ c.tarErr = "nil" /\ c.hash = "h1"
        /\ "download" \in c.tarEvents

HasType(refs, t) == \E i \in DOMAIN refs : refs[i].Type = t

BothAttemptsFailed ==
    dl.pc = "done" /\ dl.log = <<"api", "direct">> /\ dl.direct.err # DlNil

\* C25: for the default host the API endpoint is tried first and the
\* direct URL only after it failed; when both failed the error is the
\* combined one naming both causes, with or without a credential; for
\* other hosts only the direct URL is tried
C25_BothFailuresAlwaysCombined ==
    /\ dl.site = Github =>
          /\ dl.log \in {<<>>, <<"api">>, <<"api", "direct">>}
          /\ Len(dl.log) = 2 => dl.api.err # DlNil
          /\ BothAttemptsFailed =>
                /\ dl.err.kind = "combined"
                /\ dl.err.primary = dl.api.err /\ dl.err.secondary = dl.direct.err
    /\ dl.site # Github => dl.log \in {<<>>, <<"direct">>}

\* C25 as the code has it: the combined error, the API cause first, is
\* returned when a credential was present; without one the error of the
\* direct attempt is returned alone
C25_CombinedOnlyWithCredential ==
    /\ dl.site = Github =>
          /\ dl.log \in {<<>>, <<"api">>, <<"api", "direct">>}
          /\ Len(dl.log) = 2 => dl.api.err # DlNil
          /\ (BothAttemptsFailed /\ dl.token) =>
                /\ dl.err.kind = "combined"
                /\ dl.err.primary = dl.api.err /\ dl.err.secondary = dl.direct.err
          /\ (BothAttemptsFailed /\ ~dl.token) =>
                /\ dl.err.kind = "single"
                /\ dl.err.primary = dl.direct.err /\ dl.err.secondary = DlNil
          /\ (dl.pc = "done" /\ ~BothAttemptsFailed) => dl.err.kind = "nil"
    /\ dl.site # Github =>
          /\ dl.log \in {<<>>, <<"direct">>}
          /\ dl.pc = "done" => dl.err.primary = dl.direct.err

\* Both attempts failed for different reasons with no credential present
C25_Witness ==
    /\ BothAttemptsFailed /\ ~dl.token
    /\ dl.api.err.kind = "notFound" /\ dl.direct.err = DlError("downloadFailed", 500)

\* An attempt that got a response and failed
FailedWithStatus(a) == a.err.kind \notin {"notRun", "nil"} /\ a.status # NoResponse

\* The error of the attempt is the one of its status: 404 NotFound, 401
\* Unauthorized, 403 Forbidden, any other status outside 2xx DownloadFailed
\* with the status
ClassifiedByStatus(a) ==
    /\ a.status = StatusNotFound => a.err.kind = "notFound"
    /\ a.status = StatusUnauthorized => a.err.kind = "unauthorized"
    /\ a.status = StatusForbidden => a.err.kind = "forbidden"
    /\ (a.status \notin {StatusNotFound, StatusUnauthorized, StatusForbidden}
        /\ a.status \notin 200..299) => a.err = DlError("downloadFailed", a.status)

\* C26: a failed download is classified by its status on the API path and
\* on the direct path alike
C26_BothPathsClassify ==
    \A a \in {dl.api, dl.direct} : FailedWithStatus(a) => ClassifiedByStatus(a)

\* C26 as the code has it: the API path classifies by status; the direct
\* path answers every status outside 2xx, 404, 401 and 403 included, with
\* DownloadFailed carrying the status
C26_OnlyApiPathClassifies ==
    /\ FailedWithStatus(dl.api) => ClassifiedByStatus(dl.api)
    /\ (FailedWithStatus(dl.direct) /\ dl.direct.status \notin 200..299) =>
          dl.direct.err = DlError("downloadFailed", dl.direct.status)

\* The same 404 on both paths: NotFound from the API, DownloadFailed(404)
\* from the direct URL
C26_Witness ==
    /\ dl.api.status = StatusNotFound /\ dl.api.err.kind = "notFound"
    /\ dl.direct.status = StatusNotFound /\ dl.direct.err.kind = "downloadFailed"

\* C27: UpdateCache(cacheDir, ref, hash) saves access.json with the time of
\* the call for ref before anything else (the call returns the error of
\* that save when it fails); when the loaded map already holds hash for
\* ref, the call writes nothing else: map.json is not saved and no archive
\* is removed
C27_SameMappingOnlyTouchesAccess ==
    lastUpdate.called =>
        /\ lastUpdate.err = "nil" =>
              /\ "access.json" \in lastUpdate.writes
              /\ accessFile.state = "ok"
              /\ Lookup(accessFile.m, lastUpdate.ref) = clock
        /\ "access.json" \notin lastUpdate.writes =>
              lastUpdate.err = "saveErr" /\ lastUpdate.writes = {}
        /\ Lookup(lastUpdate.preMap, lastUpdate.ref) = lastUpdate.hash =>
              /\ lastUpdate.writes \subseteq {"access.json"}
              /\ mapFile = Saved(lastUpdate.preMap)
              /\ tarballs = lastUpdate.preTars

\* A second UpdateCache for the same ref and hash, at a later time, with
\* the archive of the hash in the cache
C27_Witness ==
    /\ lastUpdate.called /\ lastUpdate.err = "nil"
    /\ Lookup(lastUpdate.preMap, lastUpdate.ref) = lastUpdate.hash
    /\ lastUpdate.hash \in tarballs
    /\ clock > 0
    /\ lastUpdate.writes = {"access.json"}

\* Both processes have returned from UpdateCache
BothDone == \A p \in Procs : uc.procs[p].pc = "done"

\* C28: nothing orders the two processes: once both have returned, map.json
\* is what the last process to save it wrote, that is the map this process
\* had loaded plus its own entry, and access.json likewise; the entry of
\* the other process is there only if the last writer loaded the file
\* after the other had saved it (last writer wins)
C28_LastWriterWins ==
    BothDone =>
        /\ uc.lastMap \in Procs /\ uc.lastAccess \in Procs
        /\ uc.map = Saved(uc.procs[uc.lastMap].refMap)
        /\ uc.access = Saved(uc.procs[uc.lastAccess].accessLog)
        /\ \A p \in Procs :
              /\ Lookup(uc.procs[p].refMap, ProcRef(p)) = uc.procs[p].hash
              /\ DOMAIN uc.procs[p].refMap \subseteq {"v1", "main", "dev"}

\* Lost update: both calls returned and map.json and access.json hold the
\* entry of one process only
C28_Witness ==
    /\ BothDone
    /\ "main" \notin DOMAIN uc.map.m /\ "dev" \in DOMAIN uc.map.m
    /\ "main" \notin DOMAIN uc.access.m /\ "dev" \in DOMAIN uc.access.m

\* The interleavings in which no update is lost exist as well
C28_BothKept == BothDone /\ {"main", "dev"} \subseteq DOMAIN uc.map.m


(***************************************************************************)
(* Subdirectory filtering in ExtractTarball                                *)
(***************************************************************************)
\* The components of the requested subdirectory
SubdirParts == Split(Trim(xOpts.Subdir))

\* Header h's path, with the synthetic root removed, is the subdirectory
\* or lies under it
UnderSubdir(h) ==
    LET parts == Split(h.Name)
    IN  /\ Len(parts) >= 1 + Len(SubdirParts)
        /\ SubSeq(parts, 2, 1 + Len(SubdirParts)) = SubdirParts

\* Header h's path relative to the subdirectory, below destDir
PlaceUnderSubdir(h) ==
    LET parts == Split(h.Name)
    IN  FilepathJoin(<<xDest,
                      StringsJoin(SubSeq(parts, 2 + Len(SubdirParts), Len(parts)))>>)

\* Iteration i created a directory, a file or a symlink
Wrote(i) == xLog[i] \in {"dir", "file", "link"}

\* C29: with a subdirectory filter (and the strip count Clone passes, or
\* none), an entry is written only if its path after the synthetic root is
\* the subdirectory or lies under it, every other entry is filtered out
\* (r/sx/b for subdirectory s), and every written entry sits at its path
\* relative to the subdirectory: stripped by 1 plus the subdirectory's depth.
C29_SubdirFilterAndPlacement ==
    (xOpts.Subdir # <<>> /\ xOpts.StripComponents <= 1) =>
        \A i \in DOMAIN xLog :
            /\ ~UnderSubdir(xRead[i]) => xLog[i] = "filtered"
            /\ Wrote(i) =>
                  /\ UnderSubdir(xRead[i])
                  /\ KindAt(xFs, PlaceUnderSubdir(xRead[i])) # "none"
                  /\ PlaceUnderSubdir(xRead[i])
                        = FilepathJoin(<<xDest,
                              stripPath(xRead[i].Name, 1 + Len(SubdirParts))>>)

\* C29 witness: for subdirectory s, r/sx/b was filtered out and r/s/t/b was
\* written as t/b below destDir
C29_Witness ==
    /\ xOpts.Subdir = cS /\ xOpts.StripComponents <= 1
    /\ \E i, j \in DOMAIN xLog :
          /\ xRead[i] = Hdr(<<cR, cSX, cB>>, "reg", <<>>) /\ xLog[i] = "filtered"
          /\ xRead[j] = Hdr(<<cR, cS, cT, cB>>, "reg", <<>>) /\ xLog[j] = "file"
          /\ KindAt(xFs, FilepathJoin(<<xDest, Path(<<cT, cB>>)>>)) = "file"

\* The same with the two-level subdirectory /s/t: r/s/t/b lands as b
C29_TwoLevels ==
    /\ xOpts.Subdir = Path(<<cNone, cS, cT>>) /\ xOpts.StripComponents <= 1
    /\ \E j \in DOMAIN xLog :
          /\ xRead[j] = Hdr(<<cR, cS, cT, cB>>, "reg", <<>>) /\ xLog[j] = "file"
          /\ KindAt(xFs, FilepathJoin(<<xDest, cB>>)) = "file"


(***************************************************************************)
(* Symbolic links in ExtractTarball                                        *)
(***************************************************************************)
\* Where a link at linkPath with the given target points
LinkPointsAt(linkPath, target) ==
    IF IsAbs(target) THEN Clean(target)
    ELSE FilepathJoin(<<FilepathDir(linkPath), target>>)

\* Header h is a symlink whose target is absolute or resolves outside destDir
EscapingLink(h) ==
    /\ h.Typeflag = "symlink"
    /\ \/ IsAbs(h.Linkname)
       \/ ~IsUnder(LinkPointsAt(EntryDestPath(h), h.Linkname), xDest)

\* C30: a symlink entry whose target is absolute, or resolves outside the
\* destination directory, is skipped: the link is not created, the loop is
\* not aborted by it, and no symlink that points outside the destination
\* exists after any iteration (a sibling such as /t/oa for /t/o included).
C30_EscapingLinksSkipped ==
    /\ \A i \in DOMAIN xLog :
          (EscapingLink(xRead[i]) /\ xLog[i] \notin {"filtered", "stripped", "traversal"})
              => /\ xLog[i] # "link"
                 /\ i = Len(xLog) => xErr \in {"nil", "readErr"}
    /\ \A o \in Extracted :
          o.kind = "symlink" => IsUnder(LinkPointsAt(o.path, o.target), xDest)

\* Links with an absolute target, or one that leaves destDir by a path that
\* does not share destDir's name as a prefix, are skipped and the loop goes on
C30_SkippedAndContinued ==
    \E i \in DOMAIN xLog :
        /\ EscapingLink(xRead[i]) /\ xLog[i] = "skiplink"
        /\ i < Len(xLog) /\ xLog[i + 1] = "file"


(***************************************************************************)
(* ExtractTarball with StripComponents = 1 and no subdirectory             *)
(***************************************************************************)
\* Header h is a file or directory entry below the synthetic root r, named
\* without ".." components
RootedEntry(h) ==
    LET parts == Split(h.Name)
    IN  /\ h.Typeflag \in {"reg", "dir"}
        /\ Len(parts) >= 2 /\ parts[1] = cR
        /\ \A k \in 2..Len(parts) : parts[k] \notin {Dot, DotDot}

\* Where header h belongs: its name without the first component, below destDir
RelativePlace(h) == FilepathJoin(<<xDest, StringsJoin(Tail(Split(h.Name)))>>)

\* The archive's relative tree below destDir: every entry other than the
\* root folder itself, and the directories on the way to it
ArchiveTree ==
    UNION { {Obj(q, "dir", <<>>) :
                q \in (PathPrefixes(RelativePlace(xRead[i])) \ PathPrefixes(xDest))
                          \ {RelativePlace(xRead[i])}}
            \cup (IF RelativePlace(xRead[i]) = xDest THEN {}
                  ELSE {Obj(RelativePlace(xRead[i]),
                            IF xRead[i].Typeflag = "dir" THEN "dir" ELSE "file", <<>>)})
          : i \in DOMAIN xRead }

\* The whole archive was read and extracted with StripComponents = 1, no
\* subdirectory, and every entry below the one root folder
PlainExtractDone ==
    /\ xPc = "returned" /\ xErr = "nil" /\ Len(xLog) = Len(xRead)
    /\ xOpts = [StripComponents |-> 1, Subdir |-> <<>>]
    /\ \A i \in DOMAIN xRead : RootedEntry(xRead[i])

\* C31: with StripComponents = 1 and no subdirectory, an archive whose
\* entries all lie under one root folder is reproduced exactly below destDir
\* with that one prefix removed: nothing missing, nothing extra, and the
\* root folder entry creates nothing.
C31_TreeReproduced ==
    PlainExtractDone =>
        /\ Extracted = ArchiveTree
        /\ \A i \in DOMAIN xRead :
              xRead[i].Name = Path(<<cR, cNone>>) => xLog[i] = "stripped"

\* C31 witness: the archive r/, r/s/b was extracted as the directory s and
\* the file s/b, and the root entry created nothing
C31_Witness ==
    /\ PlainExtractDone
    /\ xRead = <<Hdr(<<cR, cNone>>, "dir", <<>>), Hdr(<<cR, cS, cB>>, "reg", <<>>)>>
    /\ xLog = <<"stripped", "file">>
    /\ Extracted = {Obj(FilepathJoin(<<xDest, cS>>), "dir", <<>>),
                    Obj(FilepathJoin(<<xDest, Path(<<cS, cB>>)>>), "file", <<>>)}


(***************************************************************************)
(* The reference list of the API path                                      *)
(***************************************************************************)
\* The list holds a reference of that type and name
Listed(refs, type, name) ==
    \E i \in DOMAIN refs : refs[i].Type = type /\ refs[i].Name = name

\* How many times the list holds the branch of that name
TimesListed(refs, name) ==
    Cardinality({i \in DOMAIN refs : refs[i].Type = "branch" /\ refs[i].Name = name})

\* The API path returned a reference list
ApiListReturned == fr.pc = "done" /\ fr.via = "api" /\ fr.err = "nil"

\* C32: a reference list returned by the API path holds every branch and
\* every tag of the remote repository, and the default branch exactly once.
C32_ApiListComplete ==
    ApiListReturned =>
        /\ \A i \in DOMAIN fr.remote.branches :
              Listed(fr.refs, "branch", fr.remote.branches[i].Name)
        /\ \A i \in DOMAIN fr.remote.tags :
              Listed(fr.refs, "tag", fr.remote.tags[i].Name)
        /\ TimesListed(fr.refs, fr.remote.default) = 1

\* Every request of the API path was answered and the list still lacks a
\* branch: the one past the first page
C32_BranchPastFirstPage ==
    /\ ApiListReturned /\ fr.failed = {}
    /\ fr.remote.branches = ManyBranches
    /\ ~Listed(fr.refs, "branch", Rep("b", PerPage + 1))
    /\ \A i \in 1..PerPage : Listed(fr.refs, "branch", Rep("b", i))
    /\ TimesListed(fr.refs, MainName) = 1


(***************************************************************************)
(* Partial commit ids with several candidates (SpecResolve)                *)
(***************************************************************************)
Reverse(list) == [i \in 1..Len(list) |-> list[Len(list) + 1 - i]]

\* The name is tried as a commit-id prefix and several references qualify
SeveralCandidates ==
    /\ rr.done /\ ~NamesHead /\ ~HasBranch(rr.name) /\ ~HasTag(rr.name)
    /\ Len(rr.name) >= 8
    /\ Cardinality(PrefixHits) >= 2

\* C33: a name of 8 or more characters that is no branch and no tag and is a
\* prefix of the commit ids of several references resolves to the commit id
\* of the first of them in input order, whatever their kinds; on the list in
\* the opposite order it resolves to the commit id of the last of them, so
\* the order decides when the candidates are distinct commits.
C33_FirstCandidateInOrder ==
    SeveralCandidates =>
        /\ rr.err = "nil"
        /\ \E i \in PrefixHits :
              /\ \A j \in PrefixHits : i <= j
              /\ rr.hash = rr.refs[i].Hash
        /\ \E k \in PrefixHits :
              /\ \A j \in PrefixHits : k >= j
              /\ ResolveRef(Reverse(rr.refs), rr.name) = Resolved(rr.refs[k].Hash)

\* C33 witness: the first candidate is the HEAD reference, a later one is a
\* branch at another commit, and the reversed list resolves differently
C33_Witness ==
    /\ SeveralCandidates
    /\ \E i, k \in PrefixHits :
          /\ i < k /\ \A j \in PrefixHits : i <= j
          /\ rr.refs[i].Type = "HEAD" /\ rr.refs[k].Type = "branch"
          /\ rr.hash = rr.refs[i].Hash
    /\ ResolveRef(Reverse(rr.refs), rr.name).hash # rr.hash


(***************************************************************************)
(* Termination of Degit.Clone.  SpecTerm is Spec with every enabled step   *)
(* of the program eventually taken.  The model stops nesting at MaxDepth   *)
(* calls; a call that is held there has a clone action left to execute.    *)
(***************************************************************************)
SpecTerm == Init /\ [][Next]_vars /\ WF_vars(Next)

C34_NestingRepeats ==
    /\ Len(stack) >= 2
    /\ Running("exec") /\ Top.ai <= Len(Top.actions)
    /\ CurrentAction.action = "clone"
    /\ ParseActionSrc(CurrentAction.src).ok
    /\ \E k \in 1..(Len(stack) - 1) :
          /\ stack[k].src.repo = ParseActionSrc(CurrentAction.src).src.repo
          /\ stack[k].pc = "wait"
          /\ stack[k].opts.Mode = Top.opts.Mode


\* The call on top is about to make the very call that started it: the same
\* source and options, on the destination tree and the cache it started
\* from.  The nested call then takes the steps the call on top has taken
\* and arrives here again, one call deeper, so the nesting has no end in
\* the program; the state held at MaxDepth stands for that.
C34_SameCallAgain ==
    /\ Len(stack) = MaxDepth
    /\ Running("exec") /\ Top.ai <= Len(Top.actions)
    /\ CurrentAction.action = "clone"
    /\ ParseActionSrc(CurrentAction.src).ok
    /\ NewFrame(ParseActionSrc(CurrentAction.src).src,
                Opts(TRUE, CurrentAction.cache, Top.opts.Mode),
                [Top.pre EXCEPT !.dest = dest, !.cache = repoCache])
          = [NewFrame(Top.src, Top.opts, Top.pre) EXCEPT !.pc = "check"]

\* The repositories that the clone actions of r's manifest name
CloneTargets(r) ==
    {ParseActionSrc(manifests[r].actions[i].src).src.repo :
        i \in {j \in DOMAIN manifests[r].actions :
                  /\ manifests[r].actions[j].action = "clone"
                  /\ ParseActionSrc(manifests[r].actions[j].src).ok}}

\* No manifest leads back to its own repository
NoCloneCycle ==
    \A r \in Repos : r \notin CloneTargets(r) /\ \A q \in CloneTargets(r) : r \notin CloneTargets(q)

\* Without such a cycle every Clone returns
C34_AcyclicTerminates == NoCloneCycle => <>(stack = <<>> /\ ret.done)


(***************************************************************************)
(* The force option and what the destination held before the call         *)
(***************************************************************************)
\* Every file name some acquisition can write
AllTreeFiles == UNION {FullTree(r) \cup SubTree(r) : r \in Repos}

\* The files the destination held when call c began and that no acquired
\* tree overwrites (no remove action of the manifests names one of them)
KeptApart(c) == c.pre.dest.files \ AllTreeFiles

\* C35: a Clone with the force option never removes an entry that was in
\* the destination before the call and that the acquired tree does not
\* overwrite, also when the tar attempt fails and git runs, or when the
\* HTTPS clone fails and SSH is tried.
C35_ForceKeepsExisting ==
    /\ \A c \in Frames : c.opts.Force => KeptApart(c) \subseteq dest.files
    /\ (ret.done /\ ret.opts.Force) => KeptApart(ret) \subseteq dest.files

\* The outermost call, forced, in tar mode: the tar attempt failed, git ran
\* and succeeded, and the file x of the destination is gone
C35_LostInFallback ==
    /\ ret.done /\ ret.depth = 1 /\ ret.opts.Force /\ ret.opts.Mode = "tar"
    /\ ret.err = Nil /\ ret.tarErr \notin {"notRun", "nil"} /\ ret.gitErr = "nil"
    /\ KeptApart(ret) # {}
    /\ KeptApart(ret) \cap dest.files = {}

\* The same in git mode: git refuses the populated destination, it is
\* cleared, and the SSH clone succeeds
C35_LostInSshRetry ==
    /\ ret.done /\ ret.depth = 1 /\ ret.opts.Force /\ ret.opts.Mode = "git"
    /\ ret.err = Nil /\ ret.gitErr = "nil"
    /\ KeptApart(ret) # {}
    /\ KeptApart(ret) \cap dest.files = {}


(***************************************************************************)
(* The archive file after a failed download (SpecDownload)                 *)
(***************************************************************************)
\* os.Stat(tarballPath) of GetCachedTarball succeeds on the file left at
\* destPath, whatever its content
StatFinds(file) == file # "absent"

\* C36: after a DownloadTarball that returned an error, a failure while the
\* response body was written included, there is no file at
\* <cacheDir>/<hash>.tar.gz, so GetCachedTarball reports the archive absent.
C36_FailedDownloadLeavesNoFile ==
    (dl.pc = "done" /\ dl.err.kind # "nil") => ~StatFinds(dl.file)

\* Both attempts failed, the last one while the body was copied, and the
\* part that was written is at destPath
C36_PartialFileLeft ==
    /\ dl.pc = "done" /\ dl.err.kind # "nil"
    /\ dl.direct.status = StatusOK /\ dl.direct.err.kind = "saveFailed"
    /\ dl.file = "partial"
    /\ StatFinds(dl.file)


(***************************************************************************)
(* Offline mode and nested clone actions                                   *)
(***************************************************************************)
\* Call c has fetched references, downloaded an archive or run git
WentOnline(c) ==
    \/ c.tarEvents \cap {"fetchRefs", "download"} # {}
    \/ c.gitErr \notin {"notRun", "gitNotFound"}

\* C37: when the outermost Clone runs in offline mode, no nested clone
\* action fetches references, downloads an archive or runs the
\* version-control binary.
C37_OfflineHoldsForNested ==
    /\ (stack # <<>> /\ stack[1].opts.Cache) =>
          \A i \in 2..Len(stack) : ~WentOnline(stack[i])
    /\ (Len(stack) >= 1 /\ stack[1].opts.Cache /\ ret.done /\ ret.depth >= 2) =>
          ~WentOnline(ret)

\* The offline parent was served from the cache, and the clone action of its
\* manifest, whose cache field is false, fetched the references of B
C37_NestedFetches ==
    /\ Len(stack) = 2
    /\ stack[1].opts.Cache /\ stack[1].tarErr = "nil" /\ stack[1].tarEvents = {}
    /\ stack[1].gitErr = "notRun"
    /\ ~stack[2].opts.Cache
    /\ "fetchRefs" \in stack[2].tarEvents


(***************************************************************************)
(* What UpdateCache leaves of the other refs' entries (SpecCache)          *)
(***************************************************************************)
\* File after holds for key r what file before held
SameEntry(before, after, r) ==
    /\ (r \in DOMAIN before.m) = (r \in DOMAIN after.m)
    /\ (r \in DOMAIN before.m /\ r \in DOMAIN after.m) => before.m[r] = after.m[r]

\* C38: UpdateCache(cacheDir, ref, hash) changes only ref's entries: for
\* every other ref, map.json maps it to the same commit id and access.json
\* gives it the same timestamp after the call as before, also when one of
\* the files cannot be loaded.
C38_OtherRefsUntouched ==
    [][lastUpdate'.called =>
          \A r \in Refs \ {lastUpdate'.ref} :
              /\ SameEntry(mapFile, mapFile', r)
              /\ SameEntry(accessFile, accessFile', r)]_vars

\* When the call loaded map.json as it is, the file maps the other refs as
\* before
C38_LoadedMapKeepsOthers ==
    [][(lastUpdate'.called /\ mapFile.state = "ok" /\ lastUpdate'.preMap = mapFile.m)
          => \A r \in Refs \ {lastUpdate'.ref} : SameEntry(mapFile, mapFile', r)]_vars


(***************************************************************************)
(* Verbose and the outcome of the acquisition (SpecVerbose)                *)
(***************************************************************************)
BothRunsDone == \A v \in BOOLEAN : vb.run[v].pc = "done"

\* C39: the verbose option only affects logging: on the same inputs and the
\* same answers of the environment the run with Verbose and the run without
\* end alike, with the same archive downloaded and the same tree extracted;
\* no credential of fewer than 20 characters and no commit id of fewer than
\* 8 makes the verbose run crash.
C39_VerboseOnlyLogs == BothRunsDone => vb.run[TRUE] = vb.run[FALSE]

\* A credential of fewer than 20 characters: the quiet run downloaded and
\* extracted, the verbose run stopped in token[:20]
C39_ShortTokenCrash ==
    /\ BothRunsDone
    /\ vb.tokenLen \in 1..(TokenShown - 1) /\ vb.hashLen = FullHashLen
    /\ vb.run[FALSE].out = "nil" /\ vb.run[FALSE].extracted
    /\ vb.run[TRUE].out = "panic" /\ ~vb.run[TRUE].downloaded

\* A commit id of fewer than 8 characters, served from the cache: the quiet
\* run extracted it, the verbose run stopped in hash[:8]
C39_ShortHashCrash ==
    /\ BothRunsDone
    /\ vb.hashLen < HashShown /\ vb.cached
    /\ vb.run[FALSE].out = "nil"
    /\ vb.run[TRUE].out = "panic"

\* With a credential of 20 characters or more (or none) and a commit id of 8
\* or more the two runs end alike
C39_LongEnoughAlike ==
    (BothRunsDone /\ vb.hashLen >= HashShown /\ (vb.tokenLen = 0 \/ vb.tokenLen >= TokenShown))
        => vb.run[TRUE] = vb.run[FALSE]

====
